---- MODULE Spec2Model ----
(***************************************************************************)
(* IT helpdesk bot: the Ticket Store (backend/ticket_management.py), the   *)
(* Session/Context Store and the follow-up and batch classifiers           *)
(* (backend/context_manager.py), the tool dispatcher                       *)
(* (backend/functions.py) and the chat orchestration loop                  *)
(* (backend/main.py).                                                      *)
(*                                                                         *)
(* Text is modelled as a sequence of tokens, so that concatenation,        *)
(* splitting on "?", substring scans, formatting and truncation are        *)
(* computed and not assumed.  Time is a count of hours.                    *)
(***************************************************************************)
EXTENDS Integers, Sequences, FiniteSets, TLC

VARIABLES
    now,                \* the wall clock, in hours
    ticket_database,    \* ticket_management.ticket_database
    creating,           \* per caller: the create_enhanced_ticket call in progress
    updates,            \* number of update_ticket_status calls made so far
    enhanced_sessions,  \* context_manager.enhanced_sessions
    remembered,         \* per session and kind: every payload given to add_context_memory
    chat,               \* per request: the locals of one run of main.chat
    started,            \* number of chat requests started so far
    varied,             \* number of times the LLM asked for other tool calls than before
    sweeping            \* per request: the locals of one run of cleanup_old_sessions

vars == <<now, ticket_database, creating, updates, enhanced_sessions,
          remembered, chat, started, varied, sweeping>>

ticketVars == <<now, ticket_database, creating, updates>>
sessionVars == <<enhanced_sessions, remembered>>
chatVars == <<chat, started, varied>>
sweepVars == <<sweeping>>

(***************************************************************************)
(* Bounds of the model                                                     *)
(***************************************************************************)
MaxNow == 26
MaxTickets == 5
MaxUpdates == 1
MaxRemember == 12
MaxRequests == 2
MaxLoopRequests == 1
MaxVaried == 1
MaxHistoryRequests == 23
MaxOverdueTickets == 4
MaxClassifierTickets == 2

Callers == {"c1", "c2"}
SessionIds == {"s1", "s2"}
Requests == {"r1", "r2"}

(***************************************************************************)
(* Generic helpers                                                         *)
(***************************************************************************)
Min(a, b) == IF a < b THEN a ELSE b

\* Python's s[:n]
Take(s, n) == SubSeq(s, 1, Min(n, Len(s)))

\* Python's s[-n:]
LastN(s, n) == IF Len(s) <= n THEN s ELSE SubSeq(s, Len(s) - n + 1, Len(s))

\* Python's list.insert(0, x)
Insert0(s, x) == <<x>> \o s

\* Python's str comparison a < b, on sequences of code points
RECURSIVE LexLess(_, _)
LexLess(a, b) ==
    IF b = <<>> THEN FALSE
    ELSE IF a = <<>> THEN TRUE
    ELSE IF Head(a) # Head(b) THEN Head(a) < Head(b)
    ELSE LexLess(Tail(a), Tail(b))

\* the decimal digits of n, as code points
RECURSIVE Decimal(_)
Decimal(n) == IF n < 10 THEN <<48 + n>> ELSE Decimal(n \div 10) \o <<48 + (n % 10)>>

\* Python's format spec 0{w}d: zero-padded to at least w digits
RECURSIVE ZeroPad(_, _)
ZeroPad(digits, w) == IF Len(digits) >= w THEN digits ELSE ZeroPad(<<48>> \o digits, w)

(***************************************************************************)
(* Ticket Store: backend/ticket_management.py                              *)
(***************************************************************************)
TicketStatus == {"Open", "In Progress", "Pending User Response", "Resolved",
                 "Closed", "Cancelled"}

TicketPriority == {"Low", "Medium", "High", "Urgent", "Critical"}

\* str.lower() on one character
LowerChar(c) ==
    CASE c = "A" -> "a" [] c = "B" -> "b" [] c = "C" -> "c" [] c = "D" -> "d"
      [] c = "E" -> "e" [] c = "F" -> "f" [] c = "G" -> "g" [] c = "H" -> "h"
      [] c = "I" -> "i" [] c = "J" -> "j" [] c = "K" -> "k" [] c = "L" -> "l"
      [] c = "M" -> "m" [] c = "N" -> "n" [] c = "O" -> "o" [] c = "P" -> "p"
      [] c = "Q" -> "q" [] c = "R" -> "r" [] c = "S" -> "s" [] c = "T" -> "t"
      [] c = "U" -> "u" [] c = "V" -> "v" [] c = "W" -> "w" [] c = "X" -> "x"
      [] c = "Y" -> "y" [] c = "Z" -> "z" [] OTHER -> c

\* str.lower()
RECURSIVE StrLower(_)
StrLower(str) ==
    IF Len(str) = 0 THEN ""
    ELSE LowerChar(SubSeq(str, 1, 1)) \o StrLower(SubSeq(str, 2, Len(str)))

\* Python's "keyword in text" on strings
InStr(keyword, text) ==
    \E i \in 1..(Len(text) - Len(keyword) + 1) :
        SubSeq(text, i, i + Len(keyword) - 1) = keyword

critical_keywords == {"server down", "system crash", "security breach",
                      "cannot login", "total outage"}
urgent_keywords == {"urgent", "asap", "critical", "emergency", "broken",
                    "not working at all"}
high_keywords == {"important", "deadline", "multiple users", "department",
                  "slow performance"}

\* the priority keywords that occur as substrings of the lower-cased issue
KeywordsIn(issue) ==
    {keyword \in critical_keywords \cup urgent_keywords \cup high_keywords :
        InStr(keyword, StrLower(issue))}

determine_priority(issue) ==
    IF KeywordsIn(issue) \cap critical_keywords # {} THEN "Critical"
    ELSE IF KeywordsIn(issue) \cap urgent_keywords # {} THEN "Urgent"
    ELSE IF KeywordsIn(issue) \cap high_keywords # {} THEN "High"
    ELSE "Medium"

resolution_hours(priority) ==
    CASE priority = "Critical" -> 2
      [] priority = "Urgent" -> 4
      [] priority = "High" -> 24
      [] priority = "Medium" -> 72
      [] priority = "Low" -> 168
      [] OTHER -> 72

\* datetime.now().strftime('%Y%m%d'): hour 0 of the model is 2026-12-30 00:00
DateString(t) ==
    LET d == t \div 24
    IN  Decimal(IF d < 2 THEN 20261230 + d ELSE 20270100 + (d - 1))

\* the id generate_ticket_id would draw with a constant sequence number
generate_ticket_id_const(t, db) == <<73, 78, 67>> \o DateString(t) \o ZeroPad(Decimal(1), 4)

\* f"INC{date}{len(ticket_database)+1:04d}"
generate_ticket_id(t, db) ==
    <<73, 78, 67>> \o DateString(t) \o ZeroPad(Decimal(Len(db) + 1), 4)

\* the ticket create_enhanced_ticket builds, given the id it drew
NewTicket(id, t, issue, priority) ==
    LET p == IF priority = "" THEN determine_priority(issue) ELSE priority
    IN  [id |-> id,
         issue |-> issue,
         status |-> "Open",
         priority |-> p,
         created_at |-> t,
         updated_at |-> t,
         estimated_resolution |-> t + resolution_hours(p),
         comments |-> <<>>]

\* create_enhanced_ticket run without interruption
create_enhanced_ticket(db, t, issue, priority) ==
    Append(db, NewTicket(generate_ticket_id(t, db), t, issue, priority))

\* initialize_sample_tickets, run when the module is imported
SampleTickets ==
    LET a == create_enhanced_ticket(<<>>, 0, "Laptop is running very slowly after Windows update", "High")
        b == create_enhanced_ticket(a, 0, "Cannot connect to VPN from home office", "Urgent")
    IN  create_enhanced_ticket(b, 0, "Printer in conference room is not working", "")

NoCall == [active |-> FALSE, id |-> <<>>, at |-> 0, issue |-> "", priority |-> ""]

\* create_enhanced_ticket, lines 125-126: the id is drawn from the store size
CreateBegin(c, issue, priority) ==
    /\ ~creating[c].active
    /\ Len(ticket_database) + Cardinality({d \in Callers : creating[d].active}) < MaxTickets
    /\ creating' = [creating EXCEPT ![c] =
            [active |-> TRUE, id |-> generate_ticket_id(now, ticket_database),
             at |-> now, issue |-> issue, priority |-> priority]]
    /\ UNCHANGED <<now, ticket_database, updates, sessionVars, chatVars, sweepVars>>

\* create_enhanced_ticket, lines 128-163: the ticket is built and appended
CreateCommit(c) ==
    /\ creating[c].active
    /\ ticket_database' = Append(ticket_database,
            NewTicket(creating[c].id, creating[c].at, creating[c].issue, creating[c].priority))
    /\ creating' = [creating EXCEPT ![c] = NoCall]
    /\ UNCHANGED <<now, updates, sessionVars, chatVars, sweepVars>>

StatusComment(old, new) == [author |-> "System", kind |-> "status", old |-> old, new |-> new]
CallerComment(text) == [author |-> "System", kind |-> text, old |-> "", new |-> ""]

\* get_ticket_status with a deadline that is overdue when it is reached
get_ticket_status_inclusive(db, t, id) ==
    IF \E i \in DOMAIN db : db[i].id = id
    THEN LET ticket == db[CHOOSE j \in DOMAIN db :
                            db[j].id = id /\ \A k \in DOMAIN db : db[k].id = id => j <= k]
         IN  [error |-> FALSE,
              ticket |-> ticket,
              time_elapsed_hours |-> t - ticket.created_at,
              is_overdue |-> t >= ticket.estimated_resolution
                             /\ ticket.status \notin {"Resolved", "Closed"}]
    ELSE [error |-> TRUE]

\* get_ticket_status: what it returns for the first ticket with the id
get_ticket_status(db, t, id) ==
    IF \E i \in DOMAIN db : db[i].id = id
    THEN LET ticket == db[CHOOSE j \in DOMAIN db :
                            db[j].id = id /\ \A k \in DOMAIN db : db[k].id = id => j <= k]
         IN  [error |-> FALSE,
              ticket |-> ticket,
              time_elapsed_hours |-> t - ticket.created_at,
              is_overdue |-> t > ticket.estimated_resolution
                             /\ ticket.status \notin {"Resolved", "Closed"}]
    ELSE [error |-> TRUE]

\* update_ticket_status without the status-change comment
update_ticket_status_silent(db, t, id, new_status, comment) ==
    IF \E i \in DOMAIN db : db[i].id = id
    THEN LET i == CHOOSE j \in DOMAIN db :
                    db[j].id = id /\ \A k \in DOMAIN db : db[k].id = id => j <= k
             c1 == IF comment # "" THEN Append(db[i].comments, CallerComment(comment))
                   ELSE db[i].comments
         IN  [db EXCEPT ![i] = [@ EXCEPT !.status = new_status,
                                         !.updated_at = t,
                                         !.comments = c1]]
    ELSE db

\* update_ticket_status applied to the store; the first ticket with the id is changed
update_ticket_status(db, t, id, new_status, comment) ==
    IF \E i \in DOMAIN db : db[i].id = id
    THEN LET i == CHOOSE j \in DOMAIN db :
                    db[j].id = id /\ \A k \in DOMAIN db : db[k].id = id => j <= k
             c1 == IF comment # "" THEN Append(db[i].comments, CallerComment(comment))
                   ELSE db[i].comments
         IN  [db EXCEPT ![i] = [@ EXCEPT !.status = new_status,
                                         !.updated_at = t,
                                         !.comments = Append(c1, StatusComment(db[i].status, new_status))]]
    ELSE db

TicketRefs == {ticket_database[i].id : i \in DOMAIN ticket_database} \cup {<<73>>}

UpdateTicketStatus(id, new_status, comment) ==
    /\ updates < MaxUpdates
    /\ updates' = updates + 1
    /\ ticket_database' = update_ticket_status(ticket_database, now, id, new_status, comment)
    /\ UNCHANGED <<now, creating, sessionVars, chatVars, sweepVars>>

\* simulate_ticket_progress taking an open ticket straight to Resolved
simulate_ticket_progress_skipping(db, t, id) ==
    IF \E i \in DOMAIN db : db[i].id = id
    THEN LET i == CHOOSE j \in DOMAIN db :
                    db[j].id = id /\ \A k \in DOMAIN db : db[k].id = id => j <= k
         IN  CASE db[i].status = "Open" ->
                    {db, update_ticket_status(db, t, id, "Resolved", "resolved")}
               [] db[i].status = "In Progress" ->
                    {db, update_ticket_status(db, t, id, "Resolved", "resolved"),
                         update_ticket_status(db, t, id, "Pending User Response", "need info")}
               [] OTHER -> {db}
    ELSE {db}

\* simulate_ticket_progress applied to the store: the outcomes random.random() allows
simulate_ticket_progress(db, t, id) ==
    IF \E i \in DOMAIN db : db[i].id = id
    THEN LET i == CHOOSE j \in DOMAIN db :
                    db[j].id = id /\ \A k \in DOMAIN db : db[k].id = id => j <= k
         IN  CASE db[i].status = "Open" ->
                    {db, update_ticket_status(db, t, id, "In Progress", "assigned")}
               [] db[i].status = "In Progress" ->
                    {db, update_ticket_status(db, t, id, "Resolved", "resolved"),
                         update_ticket_status(db, t, id, "Pending User Response", "need info")}
               [] OTHER -> {db}
    ELSE {db}

SimulateTicketProgress(id) ==
    /\ updates < MaxUpdates
    /\ \E db \in simulate_ticket_progress(ticket_database, now, id) :
          /\ ticket_database' = db
          /\ updates' = IF db = ticket_database THEN updates ELSE updates + 1
    /\ UNCHANGED <<now, creating, sessionVars, chatVars, sweepVars>>

\* the clock advances (in steps of 13 hours, so that a day boundary is crossed)
Tick ==
    /\ now + 13 <= MaxNow
    /\ now' = now + 13
    /\ UNCHANGED <<ticket_database, creating, updates, sessionVars, chatVars, sweepVars>>

(***************************************************************************)
(* Text: a sequence of tokens.  A token is a word of a user message        *)
(* (k = "w"), a "?" (k = "?"), or a piece of text the program produces.    *)
(* s carries a string the piece embeds, id the code points it embeds (a    *)
(* ticket id, a number), f tells that format_and_limit_response rewrote    *)
(* the piece's markdown.                                                   *)
(***************************************************************************)
Tok(k, s, id) == [k |-> k, s |-> s, id |-> id, f |-> FALSE]
W(s) == Tok("w", s, <<>>)
QMark == Tok("?", "?", <<>>)

(***************************************************************************)
(* Session/Context Store: backend/context_manager.py                       *)
(***************************************************************************)
ConversationState == {"general", "troubleshooting", "ticket_creation",
                      "follow_up", "kb_search"}

ContextType == {"last_issue", "current_flow", "recent_ticket",
                "search_results", "user_preferences"}

NoIssue == [present |-> FALSE, description |-> <<>>, timestamp |-> 0]
NoFlow == [present |-> FALSE, type |-> ""]

\* the session get_enhanced_session initializes
NewSession(t) ==
    [messages |-> <<>>,
     context |-> [state |-> "general",
                  last_issue |-> NoIssue,
                  current_troubleshooting_flow |-> NoFlow,
                  recent_tickets |-> <<>>,
                  search_history |-> <<>>,
                  user_preferences |-> {},
                  batch_processing |-> FALSE,
                  total_queries |-> 0],
     created_at |-> t,
     last_activity |-> t]

\* get_enhanced_session: the store after the call
get_enhanced_session(S, t, sid) ==
    IF sid \notin DOMAIN S
    THEN [x \in DOMAIN S \cup {sid} |-> IF x = sid THEN NewSession(t) ELSE S[x]]
    ELSE [S EXCEPT ![sid].last_activity = t]

\* update_conversation_state; total = 0 stands for no context_data
update_conversation_state(S, t, sid, new_state, total) ==
    LET S1 == get_enhanced_session(S, t, sid)
    IN  IF total = 0
        THEN [S1 EXCEPT ![sid].context.state = new_state]
        ELSE [S1 EXCEPT ![sid].context.state = new_state,
                        ![sid].context.batch_processing = TRUE,
                        ![sid].context.total_queries = total]

\* dict.update on user_preferences, a set of <<key, value>> pairs
DictUpdate(d, data) ==
    {p \in d : ~\E q \in data : q[1] = p[1]} \cup data

\* add_context_memory with the truncation to the newest 5 or 10 left out
add_context_memory_uncapped(S, t, sid, context_type, data) ==
    LET S1 == get_enhanced_session(S, t, sid)
        c == S1[sid].context
    IN  CASE context_type = "recent_ticket" ->
                [S1 EXCEPT ![sid].context.recent_tickets = Insert0(c.recent_tickets, data)]
          [] context_type = "search_results" ->
                [S1 EXCEPT ![sid].context.search_history =
                    Insert0(c.search_history,
                            [query |-> data.query, results |-> data.results, timestamp |-> t])]
          [] OTHER -> S1

\* add_context_memory: the store after the call
add_context_memory(S, t, sid, context_type, data) ==
    LET S1 == get_enhanced_session(S, t, sid)
        c == S1[sid].context
    IN  CASE context_type = "last_issue" ->
                [S1 EXCEPT ![sid].context.last_issue =
                    [present |-> TRUE, description |-> data, timestamp |-> t]]
          [] context_type = "current_flow" ->
                [S1 EXCEPT ![sid].context.current_troubleshooting_flow = data]
          [] context_type = "recent_ticket" ->
                [S1 EXCEPT ![sid].context.recent_tickets =
                    Take(Insert0(c.recent_tickets, data), 5)]
          [] context_type = "search_results" ->
                [S1 EXCEPT ![sid].context.search_history =
                    Take(Insert0(c.search_history,
                                 [query |-> data.query, results |-> data.results,
                                  timestamp |-> t]), 10)]
          [] context_type = "user_preferences" ->
                [S1 EXCEPT ![sid].context.user_preferences = DictUpdate(c.user_preferences, data)]
          [] OTHER -> S1

\* get_context_memory: the value returned
get_context_memory(S, t, sid, context_type) ==
    LET c == get_enhanced_session(S, t, sid)[sid].context
    IN  CASE context_type = "last_issue" -> c.last_issue
          [] context_type = "current_flow" -> c.current_troubleshooting_flow
          [] context_type = "recent_ticket" -> c.recent_tickets
          [] context_type = "search_results" -> c.search_history
          [] context_type = "user_preferences" -> c.user_preferences

NoLog == [recent_ticket |-> <<>>, search_results |-> <<>>]

RECURSIVE LogTotal(_)
LogTotal(ids) ==
    IF ids = {} THEN 0
    ELSE LET x == CHOOSE y \in ids : TRUE
         IN  Len(remembered[x].recent_ticket) + Len(remembered[x].search_results)
             + LogTotal(ids \ {x})

\* the n-th payload handed to remember for a kind: all payloads are distinct
PayloadFor(context_type, n) ==
    CASE context_type = "last_issue" -> <<W("vpn not connecting")>>
      [] context_type = "current_flow" -> [present |-> TRUE, type |-> "wifi_issues"]
      [] context_type = "recent_ticket" ->
            [issue |-> "vpn down", tool_result |-> Tok("result", "", Decimal(n))]
      [] context_type = "search_results" ->
            [query |-> "vpn", results |-> Tok("result", "", Decimal(n))]
      [] context_type = "user_preferences" -> {<<"language", "en">>}

GetEnhancedSession(sid) ==
    /\ enhanced_sessions' = get_enhanced_session(enhanced_sessions, now, sid)
    /\ UNCHANGED <<ticketVars, remembered, chatVars, sweepVars>>

AddContextMemory(sid, context_type) ==
    /\ LogTotal(SessionIds) < MaxRemember
    /\ LET n == IF context_type \in DOMAIN NoLog
                THEN Len(remembered[sid][context_type]) + 1 ELSE 0
           data == PayloadFor(context_type, n)
       IN  /\ enhanced_sessions' =
                 add_context_memory(enhanced_sessions, now, sid, context_type, data)
           /\ remembered' =
                 IF context_type \in DOMAIN NoLog
                 THEN [remembered EXCEPT ![sid][context_type] = Append(@, data)]
                 ELSE remembered
    /\ UNCHANGED <<ticketVars, chatVars, sweepVars>>

\* get_context_memory, line 94: the store after the call
get_context_memory_store(S, t, sid, context_type) == get_enhanced_session(S, t, sid)

\* detect_follow_up_intent, line 116: the store after the call
detect_follow_up_intent_store(S, t, sid) == get_enhanced_session(S, t, sid)

\* create_context_summary, line 288: the store after the call
create_context_summary_store(S, t, sid) == get_enhanced_session(S, t, sid)

\* get_context_memory: its effect on the store
GetContextMemory(sid, context_type) ==
    /\ enhanced_sessions' = get_context_memory_store(enhanced_sessions, now, sid, context_type)
    /\ UNCHANGED <<ticketVars, remembered, chatVars, sweepVars>>

\* detect_follow_up_intent called on its own: its effect on the store
DetectFollowUpIntent(sid) ==
    /\ enhanced_sessions' = detect_follow_up_intent_store(enhanced_sessions, now, sid)
    /\ UNCHANGED <<ticketVars, remembered, chatVars, sweepVars>>

\* create_context_summary called on its own: its effect on the store
CreateContextSummary(sid) ==
    /\ enhanced_sessions' = create_context_summary_store(enhanced_sessions, now, sid)
    /\ UNCHANGED <<ticketVars, remembered, chatVars, sweepVars>>

(***************************************************************************)
(* Follow-up and batch classifiers: backend/context_manager.py             *)
(***************************************************************************)
\* str.lower() on a word
Lower(s) == StrLower(s)

\* the lower-cased words of a text
Words(text) == [i \in DOMAIN text |-> Lower(text[i].s)]

\* phrase in words, for a phrase given as a sequence of words
ContainsPhrase(words, phrase) ==
    \E i \in 1..(Len(words) - Len(phrase) + 1) :
        SubSeq(words, i, i + Len(phrase) - 1) = phrase

Intents == <<"that_didnt_work", "need_more_help", "clarification",
             "status_check", "escalation">>

follow_up_patterns(intent) ==
    CASE intent = "that_didnt_work" ->
            {"that didn't work", "that doesn't work", "still not working",
             "still having issues", "didn't help", "doesn't help", "not working",
             "same problem", "still broken", "didn't fix"}
      [] intent = "need_more_help" ->
            {"what else", "other options", "another way", "different solution",
             "more help", "something else", "alternative", "what now"}
      [] intent = "clarification" ->
            {"what do you mean", "how do i", "where is", "which", "what",
             "can you explain", "i don't understand", "confused"}
      [] intent = "status_check" ->
            {"what's the status", "any update", "how long", "when will",
             "is it ready", "progress", "update on"}
      [] intent = "escalation" ->
            {"speak to someone", "call someone", "escalate", "manager",
             "human", "person", "phone", "urgent"}

\* the characters of a text: words are a space apart, a "?" follows its word
RECURSIVE Render(_)
Render(text) ==
    IF text = <<>> THEN ""
    ELSE IF Len(text) = 1 THEN text[1].s
    ELSE text[1].s \o (IF text[2].k = "?" THEN "" ELSE " ") \o Render(Tail(text))

\* user_message.lower().strip()
message_lower(user_message) == StrLower(Render(user_message))

\* a pattern of the intent is a substring of the lower-cased message
Matches(lowered, intent) ==
    \E pattern \in follow_up_patterns(intent) : InStr(pattern, lowered)

\* the scan without the break of line 153: the last intent with a pattern wins
FirstIntent_last(lowered) ==
    IF \E i \in DOMAIN Intents : Matches(lowered, Intents[i])
    THEN Intents[CHOOSE i \in DOMAIN Intents :
                    /\ Matches(lowered, Intents[i])
                    /\ \A j \in (i + 1)..Len(Intents) : ~Matches(lowered, Intents[j])]
    ELSE ""

\* the first intent, in the order of the table, with a pattern in the message; "" for None
FirstIntent(lowered) ==
    IF \E i \in DOMAIN Intents : Matches(lowered, Intents[i])
    THEN Intents[CHOOSE i \in DOMAIN Intents :
                    /\ Matches(lowered, Intents[i])
                    /\ \A j \in 1..(i - 1) : ~Matches(lowered, Intents[j])]
    ELSE ""

DetectIntent(text) == FirstIntent(message_lower(text))

NoTicketInfo == [issue |-> "", tool_result |-> Tok("none", "", <<>>)]

\* detect_follow_up_intent looking at the context of every message
detect_follow_up_intent_always(user_message, context) ==
    LET intent == DetectIntent(user_message)
        found == intent # ""
        has_issue == context.last_issue.present
        has_flow == context.current_troubleshooting_flow.present
        has_ticket == context.recent_tickets # <<>>
    IN  [is_follow_up |-> found,
         intent |-> intent,
         has_context |-> has_issue \/ has_flow \/ has_ticket,
         context_details |->
            [has_last_issue |-> has_issue,
             last_issue |-> IF has_issue THEN context.last_issue ELSE NoIssue,
             has_troubleshooting_flow |-> has_flow,
             troubleshooting_flow |-> IF has_flow THEN context.current_troubleshooting_flow
                                     ELSE NoFlow,
             has_recent_ticket |-> has_ticket,
             recent_ticket |-> IF has_ticket THEN context.recent_tickets[1]
                               ELSE NoTicketInfo]]

\* detect_follow_up_intent: the analysis returned, read from the session's context
detect_follow_up_intent(user_message, context) ==
    LET intent == DetectIntent(user_message)
        found == intent # ""
        has_issue == found /\ context.last_issue.present
        has_flow == found /\ context.current_troubleshooting_flow.present
        has_ticket == found /\ context.recent_tickets # <<>>
    IN  [is_follow_up |-> found,
         intent |-> intent,
         has_context |-> has_issue \/ has_flow \/ has_ticket,
         context_details |->
            [has_last_issue |-> has_issue,
             last_issue |-> IF has_issue THEN context.last_issue ELSE NoIssue,
             has_troubleshooting_flow |-> has_flow,
             troubleshooting_flow |-> IF has_flow THEN context.current_troubleshooting_flow
                                     ELSE NoFlow,
             has_recent_ticket |-> has_ticket,
             recent_ticket |-> IF has_ticket THEN context.recent_tickets[1]
                               ELSE NoTicketInfo]]

\* dict.get(key, default)
get(d, key, default) == IF key \in DOMAIN d THEN d[key] ELSE default

\* the text of ticket.get('id', default): the id when the dict has one
IdTok(k, ticket, default) ==
    Tok(k, IF "id" \in DOMAIN ticket THEN "" ELSE default, get(ticket, "id", <<>>))

\* generate_contextual_response with an acknowledgment for every follow-up with context
generate_contextual_response_generic(fa) ==
    LET d == fa.context_details
    IN  IF ~fa.is_follow_up \/ ~fa.has_context THEN <<>>
        ELSE CASE fa.intent = "that_didnt_work" ->
                    IF d.has_last_issue
                    THEN <<Tok("ack_didnt_work_for", "", <<>>)>> \o d.last_issue.description
                         \o <<Tok("ack_didnt_work_suggest", "", <<>>)>>
                    ELSE IF d.has_troubleshooting_flow
                    THEN <<Tok("ack_step_failed", "", <<>>)>>
                    ELSE <<Tok("ack_generic", "", <<>>)>>
               [] fa.intent = "need_more_help" ->
                    IF d.has_last_issue
                    THEN <<Tok("ack_more_solutions", "", <<>>), QMark>>
                    ELSE <<Tok("ack_generic", "", <<>>)>>
               [] fa.intent = "clarification" ->
                    IF d.has_last_issue
                    THEN <<Tok("ack_clarify", "", <<>>), QMark>>
                    ELSE <<Tok("ack_generic", "", <<>>)>>
               [] fa.intent = "status_check" ->
                    IF d.has_recent_ticket
                    THEN <<IdTok("ack_ticket_status", d.recent_ticket, "N/A"),
                           Tok("ack_regarding", d.recent_ticket.issue, <<>>)>>
                    ELSE <<Tok("ack_generic", "", <<>>)>>
               [] fa.intent = "escalation" ->
                    <<Tok("ack_escalate", "", <<>>), QMark>>
               [] OTHER -> <<>>

\* generate_contextual_response: the acknowledgment, <<>> for None
generate_contextual_response(fa) ==
    LET d == fa.context_details
    IN  IF ~fa.is_follow_up \/ ~fa.has_context THEN <<>>
        ELSE CASE fa.intent = "that_didnt_work" ->
                    IF d.has_last_issue
                    THEN <<Tok("ack_didnt_work_for", "", <<>>)>> \o d.last_issue.description
                         \o <<Tok("ack_didnt_work_suggest", "", <<>>)>>
                    ELSE IF d.has_troubleshooting_flow
                    THEN <<Tok("ack_step_failed", "", <<>>)>>
                    ELSE <<>>
               [] fa.intent = "need_more_help" ->
                    IF d.has_last_issue
                    THEN <<Tok("ack_more_solutions", "", <<>>), QMark>>
                    ELSE <<>>
               [] fa.intent = "clarification" ->
                    IF d.has_last_issue
                    THEN <<Tok("ack_clarify", "", <<>>), QMark>>
                    ELSE <<>>
               [] fa.intent = "status_check" ->
                    IF d.has_recent_ticket
                    THEN <<IdTok("ack_ticket_status", d.recent_ticket, "N/A"),
                           Tok("ack_regarding", d.recent_ticket.issue, <<>>)>>
                    ELSE <<>>
               [] fa.intent = "escalation" ->
                    <<Tok("ack_escalate", "", <<>>), QMark>>
               [] OTHER -> <<>>

\* user_message.count("?")
CountQ(text) == Cardinality({i \in DOMAIN text : text[i].k = "?"})

\* the batch indicators: a word between spaces, or a phrase
SpacedIndicators == {"also", "plus", "additionally"}
PhraseIndicators == {<<".", "also">>, <<".", "i", "also">>, <<".", "can", "you", "also">>,
                     <<".", "another">>, <<"second", "question">>, <<"another", "issue">>,
                     <<"one", "more", "thing">>}

should_batch_queries(user_message) ==
    \/ CountQ(user_message) > 1
    \/ \E i \in 2..(Len(user_message) - 1) : Words(user_message)[i] \in SpacedIndicators
    \/ \E p \in PhraseIndicators : ContainsPhrase(Words(user_message), p)

\* re.split(pattern, text): the parts between the matches of one of the phrases seps
RECURSIVE Split(_, _, _)
Split(text, seps, cur) ==
    IF text = <<>> THEN <<cur>>
    ELSE LET hit == {p \in seps : Len(p) <= Len(text) /\ Words(SubSeq(text, 1, Len(p))) = p}
         IN  IF hit # {}
             THEN LET p == CHOOSE q \in hit : TRUE
                  IN  <<cur>> \o Split(SubSeq(text, Len(p) + 1, Len(text)), seps, <<>>)
             ELSE Split(Tail(text), seps, Append(cur, Head(text)))

SelectNonEmpty(parts) == SelectSeq(parts, LAMBDA x : x # <<>>)

batch_patterns ==
    << {<<".", "also">>, <<".", "additionally">>, <<".", "another">>, <<".", "second">>},
       {<<".", "can", "you", "also">>, <<".", "could", "you", "also">>},
       {<<".", "i", "also">>, <<".", "i", "need">>, <<".", "i", "want">>} >>

\* the queries of the split on "?": every non-empty part but the last gets its "?" back
QuestionParts(user_message) ==
    LET parts == Split(user_message, {<<"?">>}, <<>>)
        marked == [i \in DOMAIN parts |->
                      IF parts[i] = <<>> THEN <<>>
                      ELSE IF i < Len(parts) THEN Append(parts[i], QMark)
                      ELSE parts[i]]
    IN  SelectNonEmpty(marked)

extract_sub_queries(user_message) ==
    LET q1 == QuestionParts(user_message)
        splits == [i \in DOMAIN batch_patterns |-> Split(user_message, batch_patterns[i], <<>>)]
        queries ==
            IF Len(q1) > 1 THEN q1
            ELSE IF \E i \in DOMAIN splits : Len(splits[i]) > 1
            THEN SelectNonEmpty(splits[CHOOSE i \in DOMAIN splits :
                                          /\ Len(splits[i]) > 1
                                          /\ \A j \in 1..(i - 1) : Len(splits[j]) <= 1])
            ELSE q1
    IN  IF Len(queries) > 1 THEN Take(queries, 4) ELSE <<user_message>>

\* create_context_summary, lines 291-320: the parts of the summary
summary_parts(context) ==
    <<Tok("summary_state", context.state, <<>>)>>
    \o (IF context.last_issue.present
        THEN <<Tok("summary_last_issue", "", <<>>)>> \o context.last_issue.description
        ELSE <<>>)
    \o (IF context.current_troubleshooting_flow.present
        THEN <<Tok("summary_flow", "Unknown", <<>>)>>
        ELSE <<>>)
    \o (IF context.recent_tickets # <<>>
        THEN <<IdTok("summary_ticket", context.recent_tickets[1], "None"),
               Tok("summary_ticket_issue", context.recent_tickets[1].issue, <<>>)>>
        ELSE <<>>)
    \o (IF context.search_history # <<>>
        THEN <<Tok("summary_search", context.search_history[1].query, <<>>)>>
        ELSE <<>>)

\* create_context_summary: the parts joined after "CONTEXT: ", "" when there are none
create_context_summary(context) ==
    IF summary_parts(context) # <<>> THEN summary_parts(context) ELSE <<>>

(***************************************************************************)
(* Tool dispatcher: backend/functions.py                                   *)
(*                                                                         *)
(* The arguments string of a tool call is modelled by its form, which      *)
(* decides what json.loads and eval make of it, and by the value val of    *)
(* the tool's parameter (issue, issue_type, query, question or ticket_id)  *)
(* it carries:                                                             *)
(*   "json"          an object of strings, e.g. {"issue": "vpn down"}      *)
(*   "json_literal"  an object with true, false or null in it              *)
(*   "json_list"     JSON that is not an object, e.g. []                   *)
(*   "python"        a Python dict literal that is not JSON, {'issue': ..} *)
(*   "garbage"       neither JSON nor a Python expression                  *)
(*   "empty"         the empty string                                      *)
(***************************************************************************)
ArgForms == {"json", "json_literal", "json_list", "python", "garbage", "empty"}

Args(form, val, id) == [form |-> form, val |-> val, id |-> id]

\* json.loads(arguments_json or "{}")
json_loads(a) ==
    CASE a.form \in {"json", "json_literal"} -> [ok |-> TRUE, dict |-> TRUE, val |-> a.val]
      [] a.form = "empty" -> [ok |-> TRUE, dict |-> TRUE, val |-> ""]
      [] a.form = "json_list" -> [ok |-> TRUE, dict |-> FALSE, val |-> ""]
      [] OTHER -> [ok |-> FALSE, dict |-> FALSE, val |-> ""]

\* eval(arguments) if arguments else {}
py_eval(a) ==
    CASE a.form \in {"json", "python"} -> [ok |-> TRUE, dict |-> TRUE, val |-> a.val]
      [] a.form = "empty" -> [ok |-> TRUE, dict |-> TRUE, val |-> ""]
      [] a.form = "json_list" -> [ok |-> TRUE, dict |-> FALSE, val |-> ""]
      [] OTHER -> [ok |-> FALSE, dict |-> FALSE, val |-> ""]

\* the keys of function_map
function_map ==
    {"search_knowledge_base_articles", "get_enhanced_faq_answer", "get_faq_answer",
     "create_ticket", "check_ticket_status", "list_my_tickets",
     "start_troubleshooting_flow", "get_software_info", "get_helpdesk_stats",
     "search_knowledge_with_vector_store", "search_enhanced_vector_store",
     "enhanced_rag_response", "agent_function_call"}

\* str.strip() leaves nothing
IsBlank(s) == s \in {"", " "}

\* knowledge_base.get_available_flows()
available_flows == {"wifi_issues", "printer_issues", "email_issues"}

\* the queries for which search_knowledge_base / search_enhanced_faq find an entry
KnownQueries == {"vpn"}

Returned(tok, db) == [raised |-> FALSE, result |-> tok, db |-> db]
Raised(db) == [raised |-> TRUE, result |-> Tok("none", "", <<>>), db |-> db]

\* functions.create_ticket
create_ticket(db, t, issue) ==
    IF IsBlank(issue)
    THEN Returned(Tok("ticket_refused", "", <<>>), db)
    ELSE LET db1 == create_enhanced_ticket(db, t, issue, "")
         IN  Returned(Tok("ticket_created", issue, db1[Len(db1)].id), db1)

\* functions.start_troubleshooting_flow
start_troubleshooting_flow(db, issue_type) ==
    IF issue_type \notin available_flows
    THEN Returned(Tok("flows_available", "", <<>>), db)
    ELSE Returned(Tok("flow_started", issue_type, <<>>), db)

\* functions.search_knowledge_base_articles
search_knowledge_base_articles(db, query) ==
    IF query \in KnownQueries
    THEN Returned(Tok("kb_articles", query, <<>>), db)
    ELSE Returned(Tok("kb_no_articles", query, <<>>), db)

\* functions.get_enhanced_faq_answer: without a match it calls get_faq_answer,
\* which calls it back, until Python raises RecursionError
get_enhanced_faq_answer(db, question) ==
    IF question \in KnownQueries
    THEN Returned(Tok("faq_answer", question, <<>>), db)
    ELSE Raised(db)

\* functions.check_ticket_status closing the ticket it reports on
check_ticket_status_closing(db, t, ticket_id) ==
    IF ticket_id = <<>>
    THEN {Returned(Tok("ticket_id_missing", "", <<>>), db)}
    ELSE {IF \E i \in DOMAIN db1 : db1[i].id = ticket_id
          THEN Returned(Tok("ticket_status",
                            db1[CHOOSE i \in DOMAIN db1 : db1[i].id = ticket_id
                                    /\ \A k \in DOMAIN db1 : db1[k].id = ticket_id => i <= k].status,
                            ticket_id), db1)
          ELSE Returned(Tok("ticket_not_found", "", ticket_id), db1)
          : db1 \in {update_ticket_status(db, t, ticket_id, "Closed", "")}}

\* functions.check_ticket_status: the outcomes, one per outcome of simulate_ticket_progress
check_ticket_status(db, t, ticket_id) ==
    IF ticket_id = <<>>
    THEN {Returned(Tok("ticket_id_missing", "", <<>>), db)}
    ELSE {IF \E i \in DOMAIN db1 : db1[i].id = ticket_id
          THEN Returned(Tok("ticket_status",
                            db1[CHOOSE i \in DOMAIN db1 : db1[i].id = ticket_id
                                    /\ \A k \in DOMAIN db1 : db1[k].id = ticket_id => i <= k].status,
                            ticket_id), db1)
          ELSE Returned(Tok("ticket_not_found", "", ticket_id), db1)
          : db1 \in simulate_ticket_progress(db, t, ticket_id)}

\* function_map[name](): the outcomes of the tool function for parsed arguments
tool_function(db, t, name, args, id) ==
    IF name = "get_helpdesk_stats" THEN {Returned(Tok("helpdesk_stats", "", <<>>), db)}
    ELSE IF ~args.dict THEN {Raised(db)}
    ELSE CASE name = "create_ticket" -> {create_ticket(db, t, args.val)}
           [] name = "start_troubleshooting_flow" -> {start_troubleshooting_flow(db, args.val)}
           [] name = "search_knowledge_base_articles" -> {search_knowledge_base_articles(db, args.val)}
           [] name \in {"get_enhanced_faq_answer", "get_faq_answer"} ->
                {get_enhanced_faq_answer(db, args.val)}
           [] name = "check_ticket_status" -> check_ticket_status(db, t, id)
           [] OTHER -> {Returned(Tok("tool_text", name, <<>>), db)}

\* call_tool_by_name with the try/except around the tool function left out
call_tool_by_name_uncaught(db, t, name, a) ==
    LET args == json_loads(a)
    IN  IF ~args.ok THEN {Returned(Tok("error_invalid_json", "", <<>>), db)}
        ELSE IF name \in function_map THEN tool_function(db, t, name, args, a.id)
        ELSE {Returned(Tok("unknown_tool", name, <<>>), db)}

\* call_tool_by_name: the outcomes; an exception of the tool function becomes a text
call_tool_by_name(db, t, name, a) ==
    LET args == json_loads(a)
    IN  IF ~args.ok THEN {Returned(Tok("error_invalid_json", "", <<>>), db)}
        ELSE IF name \in function_map
        THEN {IF o.raised THEN Returned(Tok("error_executing", name, <<>>), o.db) ELSE o
              : o \in tool_function(db, t, name, args, a.id)}
        ELSE {Returned(Tok("unknown_tool", name, <<>>), db)}

(***************************************************************************)
(* Orchestration loop: backend/main.py                                     *)
(***************************************************************************)
MAX_TOOL_TURNS == 6
MAX_MESSAGE_HISTORY == 40
HISTORY_TRIM_SIZE == 35
SESSION_CLEANUP_HOURS == 24
max_length == 2000

\* len(text) of a piece of text, in characters
RawLen(tok) ==
    CASE tok.k = "w" -> 6
      [] tok.k \in {"?", "."} -> 1
      [] tok.k = "space" -> 3
      [] tok.k = "synthesis_header" -> 44
      [] tok.k = "separator" -> 2
      [] tok.k = "data_source_note" -> 100
      [] tok.k = "ticket_created" -> 309
      [] tok.k = "ticket_refused" -> 61
      [] tok.k = "flows_available" -> 131
      [] tok.k = "flow_started" -> 160
      [] tok.k = "kb_articles" -> 420
      [] tok.k = "kb_no_articles" -> 110
      [] tok.k = "faq_answer" -> 200
      [] tok.k = "ticket_status" -> 330
      [] tok.k = "helpdesk_stats" -> 260
      [] tok.k = "error_invalid_json" -> 39
      [] tok.k = "error_executing" -> 67
      [] tok.k = "unknown_tool" -> 18
      [] tok.k = "llm_answer" -> 120
      [] tok.k = "cut" -> 1
      [] tok.k = "ellipsis" -> 3
      [] OTHER -> 40

\* the pieces whose markdown the formatter rewrites, and by how many characters
MarkdownGrowth(tok) ==
    CASE tok.k = "ticket_created" -> 15
      [] tok.k = "ticket_status" -> 12
      [] tok.k = "flow_started" -> 6
      [] tok.k = "kb_articles" -> 8
      [] tok.k = "faq_answer" -> 4
      [] tok.k = "helpdesk_stats" -> 10
      [] OTHER -> 0

FmtLen(tok) == RawLen(tok) + (IF tok.f THEN MarkdownGrowth(tok) ELSE 0)

RECURSIVE TextLen(_)
TextLen(text) == IF text = <<>> THEN 0 ELSE FmtLen(Head(text)) + TextLen(Tail(text))

\* "\n\n".join(results)
RECURSIVE Join(_)
Join(results) ==
    IF results = <<>> THEN <<>>
    ELSE IF Len(results) = 1 THEN <<results[1]>>
    ELSE <<results[1], Tok("separator", "", <<>>)>> \o Join(Tail(results))

\* str.strip()
RECURSIVE Strip(_)
Strip(text) ==
    IF text = <<>> THEN <<>>
    ELSE IF Head(text).k = "space" THEN Strip(Tail(text))
    ELSE IF text[Len(text)].k = "space" THEN Strip(SubSeq(text, 1, Len(text) - 1))
    ELSE text

\* response[:n] on pieces: the whole pieces that fit and a fragment of the next one
RECURSIVE Prefix(_, _)
Prefix(text, n) ==
    IF text = <<>> \/ n <= 0 THEN <<>>
    ELSE IF FmtLen(Head(text)) <= n
    THEN <<Head(text)>> \o Prefix(Tail(text), n - FmtLen(Head(text)))
    ELSE <<Tok("cut", Head(text).k, <<>>)>>

\* the truncation points the search for a sentence end can yield
TruncatePoints == (max_length - 198)..max_length

\* the formatting of format_and_limit_response: the data-source note, the
\* markdown rewriting and the strip
format_text(response) ==
    LET noted == IF (\A i \in DOMAIN response : response[i].k # "vector_results")
                    /\ TextLen(response) > 50
                 THEN Append(response, Tok("data_source_note", "", <<>>))
                 ELSE response
        marked == [i \in DOMAIN noted |->
                      IF MarkdownGrowth(noted[i]) > 0 THEN [noted[i] EXCEPT !.f = TRUE]
                      ELSE noted[i]]
    IN  Strip(marked)

\* the truncation of format_and_limit_response at a truncation point
limit_text(formatted, truncate_point) ==
    LET head == Prefix(formatted, truncate_point)
    IN  head
        \o (IF head # <<>> /\ head[Len(head)].k = "cut" /\ truncate_point = max_length
            THEN <<Tok("ellipsis", "", <<>>)>> ELSE <<>>)
        \o <<Tok("truncated_notice", "", <<>>)>>

\* format_and_limit_response: the texts it can return, one for each place
\* the search for a sentence end can cut a text that is too long
format_and_limit_response(response) ==
    LET formatted == format_text(response)
    IN  IF TextLen(formatted) > max_length
        THEN {limit_text(formatted, tp) : tp \in TruncatePoints}
        ELSE {formatted}

IsBlankText(text) == \A i \in DOMAIN text : text[i].k = "space"

Turn(role, content) == [role |-> role, content |-> content]

SYSTEM_PROMPT == <<Tok("system_prompt", "", <<>>)>>

\* get_session_messages handing back the stored list as it is
get_session_messages_unfiltered(S, t, sid) ==
    LET S1 == get_enhanced_session(S, t, sid)
        S2 == IF S1[sid].messages = <<>>
              THEN [S1 EXCEPT ![sid].messages = <<Turn("system", SYSTEM_PROMPT)>>]
              ELSE S1
    IN  [S |-> S2, messages |-> S2[sid].messages]

\* get_session_messages: the store after the call and the list returned
get_session_messages(S, t, sid) ==
    LET S1 == get_enhanced_session(S, t, sid)
        S2 == IF S1[sid].messages = <<>>
              THEN [S1 EXCEPT ![sid].messages = <<Turn("system", SYSTEM_PROMPT)>>]
              ELSE S1
    IN  [S |-> S2,
         messages |-> SelectSeq(S2[sid].messages,
                        LAMBDA m : m.role \in {"user", "assistant", "system"}
                                   /\ ~IsBlankText(m.content))]

\* enhanced_split_into_subqueries resetting the state for every message
enhanced_split_into_subqueries_resetting(S, t, sid, user_text) ==
    LET q == extract_sub_queries(user_text)
    IN  [S |-> update_conversation_state(S, t, sid, "general", Len(q)),
         subqueries |-> IF should_batch_queries(user_text) /\ q # <<>>
                        THEN Take(q, 4) ELSE <<user_text>>]

\* enhanced_split_into_subqueries: the store after the call and the list returned
enhanced_split_into_subqueries(S, t, sid, user_text) ==
    IF ~should_batch_queries(user_text)
    THEN [S |-> S, subqueries |-> <<user_text>>]
    ELSE LET q == extract_sub_queries(user_text)
         IN  [S |-> IF Len(q) > 1
                    THEN update_conversation_state(S, t, sid, "general", Len(q))
                    ELSE S,
              subqueries |-> IF q # <<>> THEN Take(q, 4) ELSE <<user_text>>]

RECURSIVE Bullets(_)
Bullets(qs) ==
    IF qs = <<>> THEN <<>>
    ELSE <<Tok("bullet", "", <<>>)>> \o Head(qs) \o Bullets(Tail(qs))

\* process_user_message, lines 230-235: user_message after the acknowledgment
\* of a follow-up is prepended to it
prime_message(fa, message) ==
    IF fa.is_follow_up /\ fa.has_context /\ generate_contextual_response(fa) # <<>>
    THEN generate_contextual_response(fa)
         \o <<Tok("let_me_help_you_further", "", <<>>)>> \o message
    ELSE message

\* process_user_message, lines 239-244: the payload of the sub-queries
batch_payload(subqueries, user_message) ==
    IF Len(subqueries) > 1
    THEN <<Tok("multiple_questions", "", <<>>)>> \o Bullets(subqueries)
         \o <<Tok("please_address_each", "", <<>>)>>
    ELSE user_message

\* process_user_message, lines 247-249: the payload after the context summary
context_payload(summary, batched) ==
    IF summary # <<>>
    THEN <<Tok("context", "", <<>>)>> \o summary \o <<Tok("user", "", <<>>)>> \o batched
    ELSE batched

\* process_user_message, lines 238-254, for the value user_message has there
remember_and_wrap(split, t, sid, user_message, fa) ==
    [S |-> add_context_memory(split.S, t, sid, "last_issue", user_message),
     payload |-> context_payload(
                    create_context_summary(get_enhanced_session(split.S, t, sid)[sid].context),
                    batch_payload(split.subqueries, user_message)),
     subqueries |-> split.subqueries,
     follow_up |-> fa]

\* process_user_message, lines 238-254, from the session store S1
split_and_wrap(S1, t, sid, user_message, fa) ==
    remember_and_wrap(enhanced_split_into_subqueries(S1, t, sid, user_message),
                      t, sid, user_message, fa)

\* process_user_message: the store after the call, the payload returned, the
\* sub-queries and the follow-up analysis
process_user_message(S, t, sid, message) ==
    split_and_wrap(
        get_enhanced_session(S, t, sid), t, sid,
        prime_message(
            detect_follow_up_intent(message, get_enhanced_session(S, t, sid)[sid].context),
            message),
        detect_follow_up_intent(message, get_enhanced_session(S, t, sid)[sid].context))

\* update_context_for_tool_call with FOLLOW_UP as the state of a ticket creation
update_context_for_tool_call_follow_up(S, t, sid, tool_name, a, result) ==
    LET args == py_eval(a)
    IN  IF ~args.ok THEN S
        ELSE CASE tool_name = "create_ticket" ->
                    LET S1 == update_conversation_state(S, t, sid, "follow_up", 0)
                    IN  IF ~args.dict THEN S1
                        ELSE add_context_memory(S1, t, sid, "recent_ticket",
                                [issue |-> args.val, tool_result |-> result])
               [] tool_name = "start_troubleshooting_flow" ->
                    LET S1 == update_conversation_state(S, t, sid, "troubleshooting", 0)
                    IN  IF ~args.dict THEN S1
                        ELSE add_context_memory(S1, t, sid, "current_flow",
                                [present |-> TRUE, type |-> args.val])
               [] tool_name \in {"search_knowledge_base_articles", "get_enhanced_faq_answer"} ->
                    LET S1 == update_conversation_state(S, t, sid, "kb_search", 0)
                    IN  IF ~args.dict THEN S1
                        ELSE add_context_memory(S1, t, sid, "search_results",
                                [query |-> args.val, results |-> result])
               [] OTHER -> S

\* update_context_for_tool_call: the store after the call
update_context_for_tool_call(S, t, sid, tool_name, a, result) ==
    LET args == py_eval(a)
    IN  IF ~args.ok THEN S
        ELSE CASE tool_name = "create_ticket" ->
                    LET S1 == update_conversation_state(S, t, sid, "ticket_creation", 0)
                    IN  IF ~args.dict THEN S1
                        ELSE add_context_memory(S1, t, sid, "recent_ticket",
                                [issue |-> args.val, tool_result |-> result])
               [] tool_name = "start_troubleshooting_flow" ->
                    LET S1 == update_conversation_state(S, t, sid, "troubleshooting", 0)
                    IN  IF ~args.dict THEN S1
                        ELSE add_context_memory(S1, t, sid, "current_flow",
                                [present |-> TRUE, type |-> args.val])
               [] tool_name \in {"search_knowledge_base_articles", "get_enhanced_faq_answer"} ->
                    LET S1 == update_conversation_state(S, t, sid, "kb_search", 0)
                    IN  IF ~args.dict THEN S1
                        ELSE add_context_memory(S1, t, sid, "search_results",
                                [query |-> args.val, results |-> result])
               [] OTHER -> S

\* trim_message_history keeping the whole list
trim_message_history_keeping(messages) == messages

\* trim_message_history: the list stored in the session
trim_message_history(messages) ==
    IF Len(messages) > MAX_MESSAGE_HISTORY
    THEN <<messages[1]>> \o LastN(messages, HISTORY_TRIM_SIZE)
    ELSE messages

\* cleanup_old_sessions: the store after the call
cleanup_old_sessions(S, t, max_age_hours) ==
    LET stale == {sid \in DOMAIN S : S[sid].last_activity < t - max_age_hours}
    IN  [sid \in DOMAIN S \ stale |-> S[sid]]

\* the locals of a request that is not running
Idle ==
    [pc |-> "idle", session_id |-> "", message |-> <<>>, messages |-> <<>>,
     tool_turns |-> 0, tool_results_accumulated |-> <<>>, tool_calls |-> <<>>,
     tool_results |-> <<>>, final_response |-> <<>>, synthesized |-> FALSE,
     reply |-> <<>>, outcome |-> "", llm_calls |-> 0, last_calls |-> <<>>,
     before |-> NewSession(0), dispatched |-> <<>>, subqueries |-> 0]

\* the message of the requests that exercise the turn loop
LoopMessages == {<<W("vpn"), W("not"), W("connecting")>>}

\* the tool calls the LLM asks for
Call(name, form, val) == [name |-> name, args |-> Args(form, val, <<>>)]

ToolCalls ==
    { Call("create_ticket", "json", "vpn down"),
      Call("create_ticket", "json", " "),
      Call("create_ticket", "json_literal", "vpn down"),
      Call("create_ticket", "python", "vpn down"),
      Call("create_ticket", "json_list", ""),
      Call("create_ticket", "garbage", ""),
      Call("start_troubleshooting_flow", "json", "wifi_issues"),
      Call("start_troubleshooting_flow", "json", "bogus"),
      Call("search_knowledge_base_articles", "json", "vpn"),
      Call("get_enhanced_faq_answer", "json", "zzz"),
      Call("get_helpdesk_stats", "empty", ""),
      Call("restart_server", "json", "") }

\* the lists of tool calls one LLM response carries
ToolCallLists ==
    {<<c>> : c \in ToolCalls}
    \cup { <<Call("create_ticket", "json", " "), Call("create_ticket", "json", "vpn down")>>,
           <<Call("create_ticket", "json_list", ""),
             Call("start_troubleshooting_flow", "json", "wifi_issues")>> }

\* msg.content of an LLM response without tool calls; <<>> for None and ""
LLMContents == {<<Tok("llm_answer", "", <<>>)>>, <<>>, <<Tok("space", "", <<>>)>>}

\* chat, lines 341-426: the session is fetched, the user message processed and
\* appended; ai tells whether one of the AI enhancements produced the answer
StartChat(r, sid, m, ai) ==
    /\ chat[r].pc = "idle"
    /\ started' = started + 1
    /\ \E gm \in {get_session_messages(
                     get_enhanced_session(enhanced_sessions, now, sid), now, sid)} :
       \E pm \in {process_user_message(gm.S, now, sid, m)} :
          /\ enhanced_sessions' = pm.S
          /\ chat' = [chat EXCEPT ![r] =
                [Idle EXCEPT !.pc = IF ai THEN "respond" ELSE "loop",
                             !.session_id = sid,
                             !.message = m,
                             !.subqueries = Len(pm.subqueries),
                             !.messages = Append(gm.messages, Turn("user", pm.payload)),
                             !.final_response = IF ai THEN <<Tok("vector_results", "", <<>>)>>
                                                ELSE <<>>,
                             !.before = IF sid \in DOMAIN enhanced_sessions
                                        THEN enhanced_sessions[sid] ELSE NewSession(now)]]
    /\ UNCHANGED <<ticketVars, remembered, varied, sweepVars>>

\* the loop condition without the bound on the tool turns
InLoop_unbounded(r) == chat[r].pc = "loop"

\* chat, line 433: while tool_turns < MAX_TOOL_TURNS
InLoop(r) == chat[r].pc = "loop" /\ chat[r].tool_turns < MAX_TOOL_TURNS

\* chat, lines 434-440 and 513-526: the completion call raises
LLMRaises(r) ==
    /\ InLoop(r)
    /\ chat' = [chat EXCEPT ![r].pc = "done",
                            ![r].outcome = "llm_error",
                            ![r].llm_calls = @ + 1,
                            ![r].reply = <<Tok("error_response", "", <<>>)>>]
    /\ UNCHANGED <<ticketVars, sessionVars, started, varied, sweepVars>>

\* chat, lines 434-441 and 470-474: the LLM answers with text
LLMAnswers(r, content) ==
    /\ InLoop(r)
    /\ chat' = [chat EXCEPT ![r].pc = "respond",
                            ![r].llm_calls = @ + 1,
                            ![r].final_response =
                                IF content = <<>> THEN <<Tok("apology", "", <<>>)>>
                                ELSE content]
    /\ UNCHANGED <<ticketVars, sessionVars, started, varied, sweepVars>>

\* chat, lines 434-445: the LLM asks for tool calls
LLMRequestsTools(r, calls) ==
    /\ InLoop(r)
    /\ \/ calls = chat[r].last_calls /\ varied' = varied
       \/ calls # chat[r].last_calls /\ varied < MaxVaried /\ varied' = varied + 1
    /\ chat' = [chat EXCEPT ![r].pc = "tools",
                            ![r].llm_calls = @ + 1,
                            ![r].tool_calls = calls,
                            ![r].last_calls = calls,
                            ![r].tool_results = <<>>]
    /\ UNCHANGED <<ticketVars, sessionVars, started, sweepVars>>

\* chat, lines 447-455: one tool call is dispatched and the context updated
DispatchToolCall(r) ==
    /\ chat[r].pc = "tools"
    /\ chat[r].tool_calls # <<>>
    /\ LET c == Head(chat[r].tool_calls)
           sid == chat[r].session_id
       IN  \E o \in call_tool_by_name(ticket_database, now, c.name, c.args) :
             /\ ticket_database' = o.db
             /\ IF o.raised
                THEN /\ chat' = [chat EXCEPT ![r].pc = "done",
                                             ![r].outcome = "tool_error",
                                             ![r].reply = <<Tok("error_response", "", <<>>)>>]
                     /\ UNCHANGED enhanced_sessions
                ELSE /\ enhanced_sessions' =
                          update_context_for_tool_call(enhanced_sessions, now, sid,
                                                       c.name, c.args, o.result)
                     /\ chat' = [chat EXCEPT
                          ![r].tool_calls = Tail(@),
                          ![r].tool_results = Append(@, o.result),
                          ![r].dispatched = Append(@, [name |-> c.name, args |-> c.args,
                                                      result |-> o.result,
                                                      turn |-> chat[r].tool_turns])]
    /\ UNCHANGED <<now, creating, updates, remembered, started, varied, sweepVars>>

\* tool_results_accumulated.extend(tool_results), with the earlier results dropped
extend_dropping(accumulated, tool_results) == tool_results

\* tool_results_accumulated.extend(tool_results)
extend(accumulated, tool_results) == accumulated \o tool_results

\* chat, lines 457-469: the results of the turn are accumulated and handed to the LLM
EndToolTurn(r) ==
    /\ chat[r].pc = "tools"
    /\ chat[r].tool_calls = <<>>
    /\ chat' = [chat EXCEPT
          ![r].pc = "loop",
          ![r].tool_results_accumulated = extend(@, chat[r].tool_results),
          ![r].messages =
              IF chat[r].tool_results # <<>>
              THEN Append(@, Turn("user", <<Tok("based_on_the_tool_results", "", <<>>)>>
                                          \o Join(chat[r].tool_results)
                                          \o <<Tok("please_provide_a_response", "", <<>>)>>))
              ELSE @,
          ![r].tool_turns = @ + 1]
    /\ UNCHANGED <<ticketVars, sessionVars, started, varied, sweepVars>>

\* chat, lines 476-484: the response before it is formatted
final_response_of(final_response, accumulated) ==
    LET synthesized == IF final_response = <<>> /\ accumulated # <<>>
                       THEN <<Tok("synthesis_header", "", <<>>)>> \o Join(accumulated)
                       ELSE final_response
    IN  IF synthesized = <<>> THEN <<Tok("apology_try_again", "", <<>>)>> ELSE synthesized

\* chat, lines 476-511: the final response is built, formatted and stored with
\* the turns of the request; sweep tells whether should_cleanup_sessions() drew 1
Respond(r, sweep) ==
    /\ \/ chat[r].pc = "respond"
       \/ chat[r].pc = "loop" /\ chat[r].tool_turns >= MAX_TOOL_TURNS
    /\ \E reply \in format_and_limit_response(
                         final_response_of(chat[r].final_response,
                                           chat[r].tool_results_accumulated)) :
          LET sid == chat[r].session_id
              final == final_response_of(chat[r].final_response,
                                         chat[r].tool_results_accumulated)
              messages == Append(chat[r].messages, Turn("assistant", reply))
              S1 == IF sid \in DOMAIN enhanced_sessions
                    THEN [enhanced_sessions EXCEPT ![sid].messages = trim_message_history(messages)]
                    ELSE enhanced_sessions
          IN  /\ enhanced_sessions' =
                    IF sweep THEN cleanup_old_sessions(S1, now, SESSION_CLEANUP_HOURS) ELSE S1
              /\ chat' = [chat EXCEPT
                    ![r].pc = "done",
                    ![r].outcome = "ok",
                    ![r].synthesized = chat[r].final_response = <<>>
                                       /\ chat[r].tool_results_accumulated # <<>>,
                    ![r].final_response = final,
                    ![r].messages = messages,
                    ![r].reply = reply]
    /\ UNCHANGED <<ticketVars, remembered, started, varied, sweepVars>>

\* chat returns its ChatResponse: the locals are gone
Return(r) ==
    /\ chat[r].pc = "done"
    /\ chat' = [chat EXCEPT ![r] = Idle]
    /\ UNCHANGED <<ticketVars, sessionVars, started, varied, sweepVars>>

(***************************************************************************)
(* cleanup_old_sessions, statement by statement: context_manager.py        *)
(***************************************************************************)
\* the locals of a sweep that is not running
NoSweep ==
    [pc |-> "idle", max_age_hours |-> 0, current_time |-> 0, used |-> 0,
     scanned |-> {}, sessions_to_remove |-> <<>>, next |-> 1,
     outcome |-> "none", before |-> <<>>]

\* lines 333-338: the cutoff is computed and the iteration over
\* enhanced_sessions.items() starts; the iterator notes the size of the dict
SweepBegin(r, max_age_hours) ==
    /\ sweeping[r].pc = "idle"
    /\ sweeping' = [sweeping EXCEPT ![r] =
            [NoSweep EXCEPT !.pc = "scan",
                            !.max_age_hours = max_age_hours,
                            !.current_time = now,
                            !.used = Cardinality(DOMAIN enhanced_sessions),
                            !.before = enhanced_sessions]]
    /\ UNCHANGED <<ticketVars, sessionVars, chatVars>>

\* dict iteration stopped by "dictionary changed size during iteration"
SweepScanRaises(r) ==
    /\ sweeping[r].pc = "scan"
    /\ Cardinality(DOMAIN enhanced_sessions) # sweeping[r].used
    /\ sweeping' = [sweeping EXCEPT ![r].pc = "done", ![r].outcome = "raised"]
    /\ UNCHANGED <<ticketVars, sessionVars, chatVars>>

\* the scanning round with a cutoff that takes in the boundary
SweepScan_inclusive(r) ==
    /\ sweeping[r].pc = "scan"
    /\ Cardinality(DOMAIN enhanced_sessions) = sweeping[r].used
    /\ \E session_id \in DOMAIN enhanced_sessions \ sweeping[r].scanned :
          sweeping' = [sweeping EXCEPT
              ![r].scanned = @ \cup {session_id},
              ![r].sessions_to_remove =
                  IF enhanced_sessions[session_id].last_activity
                        <= sweeping[r].current_time - sweeping[r].max_age_hours
                  THEN Append(@, session_id) ELSE @]
    /\ UNCHANGED <<ticketVars, sessionVars, chatVars>>

\* lines 338-341: one round of the scanning loop
SweepScan(r) ==
    /\ sweeping[r].pc = "scan"
    /\ Cardinality(DOMAIN enhanced_sessions) = sweeping[r].used
    /\ \E session_id \in DOMAIN enhanced_sessions \ sweeping[r].scanned :
          sweeping' = [sweeping EXCEPT
              ![r].scanned = @ \cup {session_id},
              ![r].sessions_to_remove =
                  IF enhanced_sessions[session_id].last_activity
                        < sweeping[r].current_time - sweeping[r].max_age_hours
                  THEN Append(@, session_id) ELSE @]
    /\ UNCHANGED <<ticketVars, sessionVars, chatVars>>

\* the scanning loop ends: every item was visited
SweepScanEnds(r) ==
    /\ sweeping[r].pc = "scan"
    /\ Cardinality(DOMAIN enhanced_sessions) = sweeping[r].used
    /\ DOMAIN enhanced_sessions \ sweeping[r].scanned = {}
    /\ sweeping' = [sweeping EXCEPT ![r].pc = "delete"]
    /\ UNCHANGED <<ticketVars, sessionVars, chatVars>>

\* lines 343-344: del enhanced_sessions[session_id] for the next collected id
SweepDelete(r) ==
    /\ sweeping[r].pc = "delete"
    /\ sweeping[r].next <= Len(sweeping[r].sessions_to_remove)
    /\ \E session_id \in {sweeping[r].sessions_to_remove[sweeping[r].next]} :
          /\ session_id \in DOMAIN enhanced_sessions
          /\ enhanced_sessions' =
                [x \in DOMAIN enhanced_sessions \ {session_id} |-> enhanced_sessions[x]]
    /\ sweeping' = [sweeping EXCEPT ![r].next = @ + 1]
    /\ UNCHANGED <<ticketVars, remembered, chatVars>>

\* del enhanced_sessions[session_id] raises KeyError: the key is gone
SweepDeleteRaises(r) ==
    /\ sweeping[r].pc = "delete"
    /\ sweeping[r].next <= Len(sweeping[r].sessions_to_remove)
    /\ sweeping[r].sessions_to_remove[sweeping[r].next] \notin DOMAIN enhanced_sessions
    /\ sweeping' = [sweeping EXCEPT ![r].pc = "done", ![r].outcome = "raised"]
    /\ UNCHANGED <<ticketVars, sessionVars, chatVars>>

\* line 346: return len(sessions_to_remove)
SweepReturns(r) ==
    /\ sweeping[r].pc = "delete"
    /\ sweeping[r].next > Len(sweeping[r].sessions_to_remove)
    /\ sweeping' = [sweeping EXCEPT ![r].pc = "done",
                                    ![r].outcome = Len(sweeping[r].sessions_to_remove)]
    /\ UNCHANGED <<ticketVars, sessionVars, chatVars>>

\* the caller goes on: main.chat ignores the count and logs an exception
SweepEnd(r) ==
    /\ sweeping[r].pc = "done"
    /\ sweeping' = [sweeping EXCEPT ![r] = NoSweep]
    /\ UNCHANGED <<ticketVars, sessionVars, chatVars>>

\* the clock advances by grid hours, or by d < grid hours from a multiple of grid
Advance(d, grid) ==
    /\ d < grid => now % grid = 0
    /\ now + d <= MaxNow
    /\ now' = now + d
    /\ UNCHANGED <<ticket_database, creating, updates, sessionVars, chatVars, sweepVars>>

(***************************************************************************)
(* The tool interface applied to the ticket store                          *)
(***************************************************************************)
\* call_tool_by_name(name, arguments) made on its own: its effect on the store
CallTool(c) ==
    /\ c.name = "create_ticket" => Len(ticket_database) < MaxTickets
    /\ \E o \in call_tool_by_name(ticket_database, now, c.name, c.args) :
          ticket_database' = o.db
    /\ UNCHANGED <<now, creating, updates, sessionVars, chatVars, sweepVars>>

(***************************************************************************)
(* Initial state and specifications                                        *)
(***************************************************************************)
Init ==
    /\ now = 0
    /\ ticket_database = SampleTickets
    /\ creating = [c \in Callers |-> NoCall]
    /\ updates = 0
    /\ enhanced_sessions = <<>>
    /\ remembered = [s \in SessionIds |-> NoLog]
    /\ chat = [r \in Requests |-> Idle]
    /\ started = 0
    /\ varied = 0
    /\ sweeping = [r \in Requests |-> NoSweep]

\* the arguments the model calls create_enhanced_ticket with: issue, priority
CreateArgs == {<<"vpn down", "">>, <<"server down urgent", "Low">>}

Quiet == \A c \in Callers : ~creating[c].active

\* the operations of the Ticket Store, for the callers and the statuses a
\* specification draws from
TicketOp(callers, statuses) ==
    \/ \E c \in callers, a \in CreateArgs : CreateBegin(c, a[1], a[2])
    \/ \E id \in TicketRefs, st \in statuses, cm \in {"", "note"} :
          UpdateTicketStatus(id, st, cm)
    \/ \E id \in TicketRefs : SimulateTicketProgress(id)
    \/ Tick

\* Ticket Store operations called one after the other
NextTickets ==
    \/ Quiet /\ TicketOp({"c1"}, {"In Progress", "Closed"})
    \/ \E c \in Callers : CreateCommit(c)

SpecTickets == Init /\ [][NextTickets]_vars

\* Ticket Store operations called from concurrent requests
NextTicketsConc ==
    \/ TicketOp(Callers, {"In Progress", "Closed"})
    \/ \E c \in Callers : CreateCommit(c)

SpecTicketsConc == Init /\ [][NextTicketsConc]_vars

\* Session/Context Store operations
NextStore ==
    \/ \E sid \in SessionIds : GetEnhancedSession(sid)
    \/ \E sid \in SessionIds, k \in ContextType : AddContextMemory(sid, k)
    \/ \E sid \in SessionIds, k \in ContextType : GetContextMemory(sid, k)
    \/ \E sid \in SessionIds : DetectFollowUpIntent(sid)
    \/ \E sid \in SessionIds : CreateContextSummary(sid)

SpecStore == Init /\ [][NextStore]_vars

\* the steps of request r, for the inputs a specification draws from
ChatStep(r, limit, sids, msgs, lists, contents) ==
    \/ \E sid \in sids, m \in msgs, ai \in BOOLEAN :
          started < limit /\ StartChat(r, sid, m, ai)
    \/ LLMRaises(r)
    \/ \E content \in contents : LLMAnswers(r, content)
    \/ \E calls \in lists : LLMRequestsTools(r, calls)
    \/ DispatchToolCall(r)
    \/ EndToolTurn(r)
    \/ \E sweep \in BOOLEAN : Respond(r, sweep)
    \/ Return(r)

\* the request slot that serves the requests made one after the other
Worker == CHOOSE r \in Requests : TRUE

\* the tool calls of the conversations: an article searched, then a ticket created
ConversationCalls ==
    { <<Call("search_knowledge_base_articles", "json", "vpn"),
        Call("create_ticket", "json", "vpn down")>> }

\* the messages of the conversations: an issue, a follow-up, two questions
ConversationMessages ==
    { <<W("vpn"), W("not"), W("connecting")>>,
      <<W("That"), W("didn't"), W("work")>>,
      <<W("reset"), W("password"), QMark, W("connect"), W("vpn"), QMark>> }

\* conversations: chat requests of one session served one after the other
Next ==
    ChatStep(Worker, MaxRequests, {"s1"}, ConversationMessages, ConversationCalls,
             {<<Tok("llm_answer", "", <<>>)>>})

Spec == Init /\ [][Next]_vars

\* the turn loop: a request with every kind of tool call and of LLM answer
NextLoop ==
    ChatStep(Worker, MaxLoopRequests, {"s1"}, LoopMessages, ToolCallLists, LLMContents)

SpecLoop == Init /\ [][NextLoop]_vars

(***************************************************************************)
(* Properties                                                              *)
(***************************************************************************)
Reverse(s) == [i \in 1..Len(s) |-> s[Len(s) + 1 - i]]

IdsIncreasing ==
    \A i, j \in DOMAIN ticket_database :
        i < j => LexLess(ticket_database[i].id, ticket_database[j].id)

IdsKept ==
    /\ Len(ticket_database') >= Len(ticket_database)
    /\ \A i \in DOMAIN ticket_database : ticket_database'[i].id = ticket_database[i].id

\* C3: with create calls made one after the other, every ticket's id is
\* lexicographically greater than the id of every ticket created before it
\* (so the ids are pairwise distinct), and no step of the Ticket Store
\* changes the id of a ticket it holds.
C3_SequentialIdsIncrease == [](IdsIncreasing) /\ [][IdsKept]_vars

\* two tickets were created on the same day after the sample tickets, and a
\* status update was applied afterwards
C3_Witness ==
    /\ Len(ticket_database) >= 5
    /\ SubSeq(ticket_database[4].id, 4, 11) = SubSeq(ticket_database[5].id, 4, 11)
    /\ \E i \in DOMAIN ticket_database : ticket_database[i].status # "Open"

\* C4: with create calls of concurrent requests interleaving, no state of
\* the Ticket Store holds two tickets with the same id.
C4_IdsUniqueConcurrent ==
    \A i, j \in DOMAIN ticket_database :
        i # j => ticket_database[i].id # ticket_database[j].id

Payloads(entries) == [i \in DOMAIN entries |-> entries[i].results]

\* C5: a session's recent_tickets holds at most 5 entries and its
\* search_history at most 10, and recall returns the most recent payloads
\* remembered, newest first: the min(n, 10) last searches of the n
\* remembered, the min(n, 5) last tickets.
C5_BoundedNewestFirst ==
    \A sid \in DOMAIN enhanced_sessions :
        LET tickets == get_context_memory(enhanced_sessions, now, sid, "recent_ticket")
            searches == get_context_memory(enhanced_sessions, now, sid, "search_results")
        IN  /\ Len(tickets) <= 5
            /\ Len(searches) <= 10
            /\ tickets = Take(Reverse(remembered[sid].recent_ticket), 5)
            /\ Payloads(searches) = Payloads(Take(Reverse(remembered[sid].search_results), 10))

\* twelve searches were remembered in one session, which holds ten of them
C5_Witness ==
    \E sid \in DOMAIN enhanced_sessions :
        /\ Len(remembered[sid].search_results) = 12
        /\ Len(enhanced_sessions[sid].context.search_history) = 10

(***************************************************************************)
(* The turn loop                                                           *)
(***************************************************************************)
\* the request r has returned from a loop whose tool turns were exhausted
Exhausted(r) ==
    /\ chat[r].pc = "done"
    /\ chat[r].outcome = "ok"
    /\ chat[r].tool_turns = MAX_TOOL_TURNS

LLMCallsBounded ==
    \A r \in Requests :
        /\ chat[r].llm_calls <= MAX_TOOL_TURNS
        /\ chat[r].tool_turns <= MAX_TOOL_TURNS
        /\ Exhausted(r) => chat[r].reply # <<>> /\ ~IsBlankText(chat[r].reply)

\* how far request r is from its return: the stage of the handler, the tool
\* turns left, the place within the turn, the tool calls left to dispatch
Position(r) ==
    CASE chat[r].pc = "loop" ->
             <<3, MAX_TOOL_TURNS + 1 - chat[r].tool_turns, 2, 0>>
      [] chat[r].pc = "tools" ->
             <<3, MAX_TOOL_TURNS + 1 - chat[r].tool_turns, 1, Len(chat[r].tool_calls)>>
      [] chat[r].pc = "respond" -> <<2, 0, 0, 0>>
      [] chat[r].pc = "done" -> <<1, 0, 0, 0>>
      [] OTHER -> <<0, 0, 0, 0>>

\* every step of a request in progress brings it closer to its return
Progresses ==
    \A r \in Requests :
        chat[r].pc # "idle" /\ chat'[r] # chat[r] => LexLess(Position(r)', Position(r))

\* C1: a chat request that reaches the tool-calling loop calls the LLM at
\* most MAX_TOOL_TURNS times, and every step it takes brings it closer to
\* its return, so it terminates; when the LLM asked for tool calls on every
\* turn, the reply it returns is a non-empty text.
C1_TurnLoopTerminates == [](LLMCallsBounded) /\ [][Progresses]_vars

\* a request has returned after the LLM asked for tool calls on all six turns
C1_Witness ==
    \E r \in Requests :
        /\ Exhausted(r)
        /\ chat[r].llm_calls = MAX_TOOL_TURNS
        /\ chat[r].reply # <<>>

\* the results of the tool calls dispatched during request r, in dispatch order
ResultsOf(r) == [i \in DOMAIN chat[r].dispatched |-> chat[r].dispatched[i].result]

\* the pieces xs occur in the text, in their order, whether or not the
\* formatter rewrote their markdown
RECURSIVE Embeds(_, _)
Embeds(xs, text) ==
    IF xs = <<>> THEN TRUE
    ELSE IF text = <<>> THEN FALSE
    ELSE IF [Head(text) EXCEPT !.f = FALSE] = Head(xs) THEN Embeds(Tail(xs), Tail(text))
    ELSE Embeds(xs, Tail(text))

KnownBefore(r) == chat[r].before.messages # <<>>

\* C6: when the LLM completion call raised and the request returns its
\* failure response, the session's context and its stored turn list are as
\* they were before the request.
C6_SessionUnchangedOnLLMFailure ==
    \A r \in Requests :
        chat[r].pc = "done" /\ chat[r].outcome = "llm_error" /\ KnownBefore(r)
        => /\ chat[r].session_id \in DOMAIN enhanced_sessions
           /\ enhanced_sessions[chat[r].session_id].context = chat[r].before.context
           /\ enhanced_sessions[chat[r].session_id].messages = chat[r].before.messages

\* the conversation state of a session, "" while the store does not hold it
StateOf(S, sid) == IF sid \in DOMAIN S THEN S[sid].context.state ELSE ""

\* request r dispatches a tool call in this step
Dispatches(r) == Len(chat'[r].dispatched) = Len(chat[r].dispatched) + 1

\* request r starts in this step
Starts(r) == chat[r].pc = "idle" /\ chat'[r].pc # "idle"

\* C7 as stated: a session's conversation state changes only in a step that
\* dispatches a tool call, and a request in which no tool was dispatched
\* leaves the state equal to its value before the request.
C7_StateChangesOnlyByDispatch ==
    /\ [][\A sid \in DOMAIN enhanced_sessions :
             StateOf(enhanced_sessions', sid) # StateOf(enhanced_sessions, sid)
             => \E r \in Requests : chat[r].session_id = sid /\ Dispatches(r)]_vars
    /\ [](\A r \in Requests :
             chat[r].pc = "done" /\ chat[r].dispatched = <<>>
             => StateOf(enhanced_sessions, chat[r].session_id) = chat[r].before.context.state)

StateStep ==
    \A sid \in DOMAIN enhanced_sessions :
        StateOf(enhanced_sessions', sid) # StateOf(enhanced_sessions, sid)
        => \/ \E r \in Requests : chat[r].session_id = sid /\ Dispatches(r)
           \/ \E r \in Requests :
                 /\ Starts(r)
                 /\ chat'[r].session_id = sid
                 /\ chat'[r].subqueries > 1
                 /\ StateOf(enhanced_sessions', sid) = "general"

StateKept ==
    \A r \in Requests :
        chat[r].pc = "done" /\ chat[r].dispatched = <<>> /\ chat[r].subqueries <= 1
        => StateOf(enhanced_sessions, chat[r].session_id) = chat[r].before.context.state

\* C7: a session's conversation state changes only in a step that
\* dispatches a tool call, or, to general, at the start of a request whose
\* message (with the acknowledgment prepended to a follow-up) is split into
\* more than one sub-query; a request in which no tool was dispatched and
\* whose message was not split leaves the state equal to its value before
\* the request.
C7_StateChangesByDispatchOrSplit == [][StateStep]_vars /\ [](StateKept)

\* a request on a session in a state other than general has returned
\* without a tool call and without a split, and the state is kept
C7_Witness ==
    \E r \in Requests :
        /\ chat[r].pc = "done"
        /\ chat[r].dispatched = <<>>
        /\ chat[r].subqueries = 1
        /\ chat[r].before.context.state # "general"
        /\ StateOf(enhanced_sessions, chat[r].session_id) = chat[r].before.context.state

\* the effects of tool calls on the session of request r
Effects(S, r) ==
    LET sid == chat[r].session_id
    IN  IF sid \in DOMAIN S
        THEN <<S[sid].context.state, S[sid].context.recent_tickets,
               S[sid].context.current_troubleshooting_flow, S[sid].context.search_history>>
        ELSE <<>>

\* the results of the dispatches that did not perform the operation
FailedResults ==
    {"ticket_refused", "flows_available", "error_invalid_json", "unknown_tool",
     "error_executing"}

\* C8: a tool call whose dispatch did not perform the operation (create_ticket
\* refused for a blank issue, an unknown flow type, invalid JSON arguments,
\* an unknown tool) leaves the session's state, recent_tickets, current flow
\* and search_history unchanged.
C8_EffectsOnlyAfterSuccess ==
    [][\A r \in Requests :
          Dispatches(r)
          /\ chat'[r].dispatched[Len(chat'[r].dispatched)].result.k \in FailedResults
          => Effects(enhanced_sessions', r) = Effects(enhanced_sessions, r)]_vars

\* the tool names dispatch is called with: the known ones and an unknown one
DispatchNames == function_map \cup {"restart_server"}

\* at every dispatch of the loop, dispatch returns a text for every tool name
\* and for the arguments of the call in every form
DispatchReturnsText ==
    \A r \in Requests :
        /\ chat[r].outcome # "tool_error"
        /\ chat[r].pc = "tools" /\ chat[r].tool_calls # <<>>
           => \A name \in DispatchNames, form \in ArgForms :
                 \A o \in call_tool_by_name(ticket_database, now, name,
                                            Args(form, Head(chat[r].tool_calls).args.val, <<>>)) :
                     ~o.raised /\ o.result.k # "none"

LoopGoesOn ==
    \A r \in Requests :
        Dispatches(r)
        => /\ chat'[r].pc = "tools"
           /\ chat'[r].tool_calls = Tail(chat[r].tool_calls)
           /\ chat'[r].tool_results =
                 Append(chat[r].tool_results,
                        chat'[r].dispatched[Len(chat'[r].dispatched)].result)

\* C9: dispatch never raises to its caller: for every tool name, known or
\* unknown, and every arguments string (a JSON object, JSON of another
\* shape, unparseable) it returns a text, and after every call, failed or
\* not, the turn loop goes on with the remaining tool calls of the turn.
C9_DispatchNeverRaises == [](DispatchReturnsText) /\ [][LoopGoesOn]_vars

\* a call failed inside the tool function, and the request went on to
\* dispatch the next call of the turn and to a further turn
C9_Witness ==
    \E r \in Requests :
        \E i, j, k \in DOMAIN chat[r].dispatched :
            /\ i < j /\ j < k
            /\ chat[r].dispatched[i].result.k = "error_executing"
            /\ chat[r].dispatched[j].turn = chat[r].dispatched[i].turn
            /\ chat[r].dispatched[j].result.k = "flow_started"
            /\ chat[r].dispatched[k].turn > chat[r].dispatched[i].turn

\* C10: after the Remember step of a chat request with message m, the
\* session's last_issue description is m, also when m was classified as a
\* follow-up and an acknowledgment was prepended to the payload.
C10_LastIssueIsRawMessage ==
    \A r \in Requests :
        chat[r].pc # "idle" /\ chat[r].session_id \in DOMAIN enhanced_sessions
        => enhanced_sessions[chat[r].session_id].context.last_issue.description
               = chat[r].message

(***************************************************************************)
(* Ticket status lifecycle and audit comments                              *)
(***************************************************************************)
NonTerminal == {"Open", "In Progress", "Resolved", "Pending User Response"}

LifecycleEdges ==
    {<<"Open", "In Progress">>,
     <<"In Progress", "Resolved">>,
     <<"In Progress", "Pending User Response">>,
     <<"Resolved", "Closed">>,
     <<"Pending User Response", "Closed">>}
    \cup {<<s, "Cancelled">> : s \in NonTerminal}

\* C11: every change of a ticket's status follows an edge of the lifecycle
\* Open -> In Progress -> {Resolved | Pending User Response} -> Closed, or
\* goes to Cancelled from a non-terminal status; no ticket leaves Closed or
\* Cancelled.
C11_StatusFollowsLifecycle ==
    [][\A i \in DOMAIN ticket_database :
          ticket_database'[i].status # ticket_database[i].status
          => <<ticket_database[i].status, ticket_database'[i].status>> \in LifecycleEdges]_vars

IsPrefix(s, t) == Len(s) <= Len(t) /\ \A k \in DOMAIN s : t[k] = s[k]

\* what one step may do to the comments of a ticket: nothing, or append an
\* optional caller comment followed by the comment recording old and new status
CommentsStep(old, new) ==
    LET n == Len(old.comments)
        m == Len(new.comments)
    IN  /\ IsPrefix(old.comments, new.comments)
        /\ new.status # old.status => m > n
        /\ m > n =>
             /\ new.comments[m] = StatusComment(old.status, new.status)
             /\ m <= n + 2
             /\ m = n + 2 => new.comments[n + 1].kind \notin {"status", ""}

NoSweepRuns == \A r \in Requests : sweeping[r].pc = "idle"

\* sweeps that run with nothing interleaved
NextSweep ==
    \/ NoSweepRuns /\ \E sid \in SessionIds : GetEnhancedSession(sid)
    \/ NoSweepRuns /\ \E d \in {1, 12} : Advance(d, 12)
    \/ \E max_age_hours \in {12, SESSION_CLEANUP_HOURS} : SweepBegin(Worker, max_age_hours)
    \/ SweepScan(Worker)
    \/ SweepScanEnds(Worker)
    \/ SweepDelete(Worker)
    \/ SweepReturns(Worker)
    \/ SweepEnd(Worker)

SpecSweep == Init /\ [][NextSweep]_vars

\* the sweeps of two requests interleaved with each other and with
\* get_enhanced_session; the clock advances between sweeps
NextSweepConc ==
    \/ \E sid \in SessionIds : GetEnhancedSession(sid)
    \/ NoSweepRuns /\ \E d \in {1, 12} : Advance(d, 12)
    \/ \E r \in Requests :
          \/ SweepBegin(r, SESSION_CLEANUP_HOURS)
          \/ SweepScanRaises(r)
          \/ SweepScan(r)
          \/ SweepScanEnds(r)
          \/ SweepDelete(r)
          \/ SweepDeleteRaises(r)
          \/ SweepReturns(r)
          \/ SweepEnd(r)

SpecSweepConc == Init /\ [][NextSweepConc]_vars

Stale(S, t, max_age_hours) == {sid \in DOMAIN S : S[sid].last_activity < t - max_age_hours}

\* C13: a sweep that runs with nothing interleaved removes exactly the
\* sessions whose last_activity precedes now - max_age, leaves every other
\* session unchanged, and returns the number of sessions it removed.
C13_SweepRemovesExactlyStale ==
    \A r \in Requests :
       sweeping[r].pc = "done" =>
          LET w == sweeping[r]
              stale == Stale(w.before, w.current_time, w.max_age_hours)
          IN  /\ DOMAIN enhanced_sessions = DOMAIN w.before \ stale
              /\ \A sid \in DOMAIN enhanced_sessions : enhanced_sessions[sid] = w.before[sid]
              /\ w.outcome = Cardinality(stale)
              /\ enhanced_sessions = cleanup_old_sessions(w.before, w.current_time, w.max_age_hours)

\* a sweep with max_age 24 has removed a session idle for 25 hours and
\* retained one idle for 1 hour
C13_Witness ==
    \E r \in Requests :
       /\ sweeping[r].pc = "done"
       /\ sweeping[r].max_age_hours = 24
       /\ sweeping[r].outcome = 1
       /\ \E a \in DOMAIN sweeping[r].before :
             /\ sweeping[r].before[a].last_activity = sweeping[r].current_time - 25
             /\ a \notin DOMAIN enhanced_sessions
       /\ \E b \in DOMAIN enhanced_sessions :
             enhanced_sessions[b].last_activity = sweeping[r].current_time - 1

\* C14: a session refreshed by get_enhanced_session between a sweep's scan
\* and its deletion is not removed: whenever a sweep deletes a session, the
\* session's last_activity at that moment precedes the sweep's cutoff.
C14_RefreshedSessionNotRemoved ==
    [][\A r \in Requests, sid \in DOMAIN enhanced_sessions :
          (sweeping[r].pc = "delete" /\ sweeping'[r].next = sweeping[r].next + 1
             /\ sid \notin DOMAIN enhanced_sessions')
          => enhanced_sessions[sid].last_activity
                < sweeping[r].current_time - sweeping[r].max_age_hours]_vars

\* C15: a sweep completes without error when another request creates a
\* session or another sweep deletes sessions while it scans or deletes.
C15_SweepNeverRaises ==
    \A r \in Requests : sweeping[r].outcome # "raised"

(***************************************************************************)
(* The stored turn list                                                    *)
(***************************************************************************)
\* the messages and the LLM answers of the requests that may overlap
TurnMessages == {<<W("vpn"), W("not"), W("connecting")>>, <<W("printer"), W("offline")>>}
TurnContents == {<<Tok("llm_answer", "", <<>>)>>, <<Tok("space", "", <<>>)>>}

\* chat requests of one session served by two threads
NextTurns ==
    \E r \in Requests :
       \/ \E m \in TurnMessages : started < MaxRequests /\ StartChat(r, "s1", m, FALSE)
       \/ LLMRaises(r)
       \/ \E content \in TurnContents : LLMAnswers(r, content)
       \/ Respond(r, FALSE)
       \/ Return(r)

SpecTurns == Init /\ [][NextTurns]_vars

\* the step in which request r stores its turns
Stores(r) == chat[r].pc # "done" /\ chat'[r].pc = "done" /\ chat'[r].outcome = "ok"

\* the stored list as request r found it when it started
ReadAtStart(r) ==
    IF chat[r].before.messages = <<>> THEN <<Turn("system", SYSTEM_PROMPT)>>
    ELSE chat[r].before.messages

NonBlank(messages) == SelectSeq(messages, LAMBDA m : ~IsBlankText(m.content))

\* what the step of r that stores its turns does to the stored list, when
\* Kept(old) are the turns of the list old that a request run alone keeps
TurnsStored(r, kept, new) ==
    /\ new = chat'[r].messages
    /\ Len(new) >= 3
    /\ new[Len(new)].role = "assistant"
    /\ new[Len(new) - 1] = chat[r].messages[Len(chat[r].messages)]
    /\ enhanced_sessions[chat[r].session_id].messages = ReadAtStart(r)
       => new = kept \o LastN(new, 2)

NextHistory ==
    \/ \E m \in LoopMessages :
          started < MaxHistoryRequests /\ StartChat(Worker, "s1", m, FALSE)
    \/ LLMRaises(Worker)
    \/ LLMAnswers(Worker, <<Tok("llm_answer", "", <<>>)>>)
    \/ \E sweep \in BOOLEAN : Respond(Worker, sweep)
    \/ Return(Worker)

SpecHistory == Init /\ [][NextHistory]_vars

\* the request r has stored its turns and not yet returned
Completed(r) ==
    /\ chat[r].pc = "done"
    /\ chat[r].outcome = "ok"
    /\ chat[r].session_id \in DOMAIN enhanced_sessions

\* C17: after every completed chat request the stored turn list has at most
\* 40 entries and its first entry is the system turn; when the list of the
\* request exceeded 40 entries the stored list is its first turn followed by
\* its 35 most recent turns in their original order.
C17_StoredHistoryBounded ==
    \A r \in Requests :
       Completed(r) =>
          LET stored == enhanced_sessions[chat[r].session_id].messages
              messages == chat[r].messages
              n == Len(messages)
          IN  /\ Len(stored) <= 40
              /\ stored # <<>>
              /\ stored[1] = Turn("system", SYSTEM_PROMPT)
              /\ n <= 40 => stored = messages
              /\ n > 40 =>
                    /\ Len(stored) = 36
                    /\ stored[1] = messages[1]
                    /\ \A k \in 1..35 : stored[1 + k] = messages[n - 35 + k]

\* a request whose list had grown to 42 turns has stored 36 of them
C17_Witness ==
    \E r \in Requests :
       /\ Completed(r)
       /\ Len(chat[r].messages) = 42
       /\ Len(enhanced_sessions[chat[r].session_id].messages) = 36

\* C18: recall and the context lookups of the classifier and of the
\* summarizer are pure reads: for every session id, in the store or not,
\* the store after the call is the store before it.
C18_LookupsArePureReads ==
    \A sid \in SessionIds :
       /\ \A k \in ContextType :
             get_context_memory_store(enhanced_sessions, now, sid, k) = enhanced_sessions
       /\ detect_follow_up_intent_store(enhanced_sessions, now, sid) = enhanced_sessions
       /\ create_context_summary_store(enhanced_sessions, now, sid) = enhanced_sessions

(***************************************************************************)
(* Overdue tickets                                                         *)
(***************************************************************************)
\* tickets created and resolved one call at a time, on a clock that shows the
\* hours 4k and 4k + 1
NextOverdue ==
    \/ /\ Quiet
       /\ Len(ticket_database) < MaxOverdueTickets
       /\ \E a \in CreateArgs : CreateBegin("c1", a[1], a[2])
    \/ CreateCommit("c1")
    \/ Quiet /\ \E id \in TicketRefs : UpdateTicketStatus(id, "Resolved", "")
    \/ Quiet /\ \E d \in {1, 4} : Advance(d, 4)

SpecOverdue == Init /\ [][NextOverdue]_vars

\* the resolution window of a priority, in hours
Window(priority) ==
    CASE priority = "Critical" -> 2
      [] priority = "Urgent" -> 4
      [] priority = "High" -> 24
      [] priority = "Medium" -> 72
      [] priority = "Low" -> 168

\* C19: get_status reports a ticket overdue exactly when the clock is past
\* its estimated resolution and its status is neither Resolved nor Closed,
\* and the estimated resolution is the creation time plus the window of the
\* priority (Critical 2h, Urgent 4h, High 24h, Medium 72h, Low 168h) at any
\* time after the creation.
C19_OverdueComputation ==
    \A i \in DOMAIN ticket_database :
       LET ticket == ticket_database[i]
           status == get_ticket_status(ticket_database, now, ticket.id)
       IN  /\ ticket.priority \in TicketPriority
           /\ ticket.estimated_resolution = ticket.created_at + Window(ticket.priority)
           /\ ~status.error
           /\ status.is_overdue <=>
                 /\ now > ticket.created_at + Window(ticket.priority)
                 /\ ticket.status \notin {"Resolved", "Closed"}

\* an Urgent ticket still open is asked for five hours after its creation
C19_Witness ==
    \E i \in DOMAIN ticket_database :
       /\ ticket_database[i].priority = "Urgent"
       /\ ticket_database[i].status = "Open"
       /\ now = ticket_database[i].created_at + 5
       /\ get_ticket_status(ticket_database, now, ticket_database[i].id).is_overdue

(***************************************************************************)
(* The follow-up classifier                                                *)
(***************************************************************************)
ThatDidntWork == <<W("That"), W("didn't"), W("work")>>

\* the messages classified: follow-ups of three intents and two that are none
ClassifiedMessages ==
    {ThatDidntWork,
     <<W("what"), W("else"), W("can"), W("I"), W("try"), QMark>>,
     <<W("any"), W("update"), QMark>>,
     <<W("vpn"), W("keeps"), W("disconnecting")>>,
     <<W("thanks")>>}

\* sessions that come to hold a last issue, a flow and recent tickets, and
\* whose context the classifier reads
NextClassifier ==
    \/ \E sid \in SessionIds : DetectFollowUpIntent(sid)
    \/ \E sid \in SessionIds, k \in {"last_issue", "current_flow"} : AddContextMemory(sid, k)
    \/ \E sid \in SessionIds :
          /\ Len(remembered[sid].recent_ticket) < MaxClassifierTickets
          /\ AddContextMemory(sid, "recent_ticket")

SpecClassifier == Init /\ [][NextClassifier]_vars

\* the session holds a last issue, an active troubleshooting flow or a recent ticket
HoldsContext(context) ==
    \/ context.last_issue.present
    \/ context.current_troubleshooting_flow.present
    \/ context.recent_tickets # <<>>

\* the round trip of "that didn't work" in a session that holds a last issue
FollowUpRoundTrip(context) ==
    LET fa == detect_follow_up_intent(ThatDidntWork, context)
    IN  context.last_issue.present =>
           /\ fa.is_follow_up
           /\ fa.intent = "that_didnt_work"
           /\ fa.has_context
           /\ fa.context_details.has_last_issue
           /\ fa.context_details.last_issue = context.last_issue

\* C20 as stated: for every message and every session the classifier returns
\* has_context = true if and only if the session holds a last issue, an
\* active flow or a recent ticket; "that didn't work" in a session with a
\* last issue is a follow-up of intent that_didnt_work whose context details
\* carry the stored last issue.
C20_HasContextIffSessionHolds ==
    \A sid \in DOMAIN enhanced_sessions :
       /\ \A m \in ClassifiedMessages :
             detect_follow_up_intent(m, enhanced_sessions[sid].context).has_context
                <=> HoldsContext(enhanced_sessions[sid].context)
       /\ FollowUpRoundTrip(enhanced_sessions[sid].context)

\* C20: for every message and every session the classifier returns
\* has_context = true if and only if the message is a follow-up and the
\* session holds a last issue, an active flow or a recent ticket; "that
\* didn't work" in a session with a last issue is a follow-up of intent
\* that_didnt_work whose context details carry the stored last issue.
C20_HasContextIffFollowUpAndSessionHolds ==
    \A sid \in DOMAIN enhanced_sessions :
       /\ \A m \in ClassifiedMessages :
             LET fa == detect_follow_up_intent(m, enhanced_sessions[sid].context)
             IN  fa.has_context
                    <=> fa.is_follow_up /\ HoldsContext(enhanced_sessions[sid].context)
       /\ FollowUpRoundTrip(enhanced_sessions[sid].context)

\* a session holds a last issue: "that didn't work" is classified as a
\* follow-up with context, a message that is no follow-up as without context
C20_Witness ==
    \E sid \in DOMAIN enhanced_sessions :
       LET context == enhanced_sessions[sid].context
       IN  /\ context.last_issue.present
           /\ detect_follow_up_intent(ThatDidntWork, context).has_context
           /\ detect_follow_up_intent(ThatDidntWork, context).context_details.last_issue
                 = context.last_issue
           /\ ~detect_follow_up_intent(<<W("thanks")>>, context).has_context

(***************************************************************************)
(* Priority derived from the issue text                                    *)
(***************************************************************************)
\* the issues of the tickets created with no priority given
PriorityIssues ==
    {"server is down and no one can login",
     "minor cosmetic issue",
     "Server is completely down and no one can access email",
     "My laptop screen is flickering urgently need help",
     "Need to install new software for the accounting team",
     "Printer in break room making weird noises",
     "Server down, total outage",
     "urgent deadline"}

\* tickets created one at a time from an issue text alone
NextPriority ==
    \/ \E issue \in PriorityIssues : CreateBegin("c1", issue, "")
    \/ CreateCommit("c1")

SpecPriority == Init /\ [][NextPriority]_vars

\* the priority a ticket with the issue is to get
PriorityOf(issue) ==
    CASE issue = "server is down and no one can login" -> {"Critical"}
      [] issue = "minor cosmetic issue" -> {"Medium"}
      [] issue = "Server is completely down and no one can access email" -> {"Critical"}
      [] issue = "Printer in break room making weird noises" -> {"Low"}
      [] OTHER -> TicketPriority

\* C21: a ticket created with no priority given gets the priority derived
\* from its issue text: Critical for "server is down and no one can login"
\* and for "Server is completely down and no one can access email", Medium
\* for "minor cosmetic issue", Low for "Printer in break room making weird
\* noises".
C21_PriorityDerivedFromIssue ==
    \A i \in DOMAIN ticket_database :
       ticket_database[i].issue \in PriorityIssues
       => ticket_database[i].priority \in PriorityOf(ticket_database[i].issue)

(***************************************************************************)
(* Ticket progress through the tool interface                              *)
(***************************************************************************)
\* the tool calls that reach the ticket store, and one that is not a tool
StoreCalls ==
    {[name |-> "check_ticket_status", args |-> Args("json", "", id)]
        : id \in TicketRefs \cup {<<>>}}
    \cup {Call("create_ticket", "json", "vpn down"),
          Call("list_my_tickets", "json", ""),
          Call("update_ticket_status", "json", "Closed")}
    \cup {Call(name, "json", "vpn")
             : name \in function_map \ {"create_ticket", "check_ticket_status",
                                        "list_my_tickets"}}

NextTools ==
    \/ \E c \in StoreCalls : CallTool(c)
    \/ \E id \in TicketRefs : SimulateTicketProgress(id)

SpecTools == Init /\ [][NextTools]_vars

ProgressEdges ==
    {<<"Open", "In Progress">>,
     <<"In Progress", "Resolved">>,
     <<"In Progress", "Pending User Response">>}

\* the tickets whose status differs between two stores
Moved(db, db1) == {i \in DOMAIN db : db1[i].status # db[i].status}

\* db1 is db with at most one ticket taken one step along the progress edges
OneStep(db, db1) ==
    /\ Len(db1) = Len(db)
    /\ Cardinality(Moved(db, db1)) <= 1
    /\ \A i \in Moved(db, db1) : <<db[i].status, db1[i].status>> \in ProgressEdges
    /\ \A i \in DOMAIN db \ Moved(db, db1) : db1[i] = db[i]

\* simulate_progress and check_ticket_status applied to the store as it is
ProgressCalls ==
    \A id \in TicketRefs \cup {<<>>} :
       /\ \A db1 \in simulate_ticket_progress(ticket_database, now, id) :
             /\ OneStep(ticket_database, db1)
             /\ (\A i \in DOMAIN ticket_database :
                    ticket_database[i].id = id
                    => ticket_database[i].status \notin {"Open", "In Progress"})
                => db1 = ticket_database
       /\ \A o \in check_ticket_status(ticket_database, now, id) :
             OneStep(ticket_database, o.db)

\* C22: simulate_progress makes at most one status transition per call, along
\* Open -> In Progress or In Progress -> {Resolved, Pending User Response},
\* and leaves a ticket in another status, and the store for an unknown id,
\* unchanged; a check_ticket_status dispatch advances a ticket by at most
\* one such step.
C22_ProgressOneStep ==
    /\ [](ProgressCalls)
    /\ [][Len(ticket_database') = Len(ticket_database)
             => OneStep(ticket_database, ticket_database')]_vars

\* a status query has taken a ticket to In Progress and a later one to Resolved
C22_Witness ==
    \E i \in DOMAIN ticket_database :
       /\ ticket_database[i].status = "Resolved"
       /\ Len(ticket_database[i].comments) = 4
       /\ ticket_database[i].comments[2] = StatusComment("Open", "In Progress")
       /\ ticket_database[i].comments[4] = StatusComment("In Progress", "Resolved")

(***************************************************************************)
(* Result turns of a tool turn                                             *)
(***************************************************************************)
\* the step of request r that ends a tool turn
EndsToolTurn(r) == chat[r].pc = "tools" /\ chat'[r].pc = "loop"

\* the turn carries one tool result and names the call it answers
ResultTurn(turn, result) ==
    /\ "tool_call_id" \in DOMAIN turn
    /\ turn.content = <<result>>

\* C23: for each tool call of an LLM response the turn loop appends, before
\* the next LLM call, exactly one turn that carries the result of the call
\* and echoes the id of the call: k tool calls yield k distinct result turns.
C23_OneResultTurnPerToolCall ==
    [][\A r \in Requests :
          EndsToolTurn(r) =>
             LET k == Len(chat[r].tool_results)
                 n == Len(chat[r].messages)
             IN  /\ Len(chat'[r].messages) = n + k
                 /\ \A j \in 1..k :
                       ResultTurn(chat'[r].messages[n + j], chat[r].tool_results[j])]_vars

(***************************************************************************)
(* The acknowledgment of a follow-up                                       *)
(***************************************************************************)
\* messages of every intent, and two that are no follow-up
IntentMessages ==
    ClassifiedMessages
    \cup {<<W("How"), W("do"), W("I"), W("fix"), W("it"), QMark>>,
          <<W("please"), W("escalate"), W("this")>>}

\* the context item the acknowledgment of the intent is written from
Acknowledges(intent, context) ==
    CASE intent = "that_didnt_work" ->
            context.last_issue.present \/ context.current_troubleshooting_flow.present
      [] intent \in {"need_more_help", "clarification"} -> context.last_issue.present
      [] intent = "status_check" -> context.recent_tickets # <<>>
      [] intent = "escalation" -> TRUE
      [] OTHER -> FALSE

\* C24 as stated: render_followup_preamble returns an acknowledgment if and
\* only if the classification has is_follow_up and has_context both true,
\* for every intent and every combination of context items, and null otherwise.
C24_PreambleIffFollowUpWithContext ==
    \A sid \in DOMAIN enhanced_sessions, m \in IntentMessages :
       LET fa == detect_follow_up_intent(m, enhanced_sessions[sid].context)
       IN  generate_contextual_response(fa) # <<>>
              <=> fa.is_follow_up /\ fa.has_context

\* C24: render_followup_preamble returns an acknowledgment if and only if
\* the classification has is_follow_up and has_context both true and the
\* context holds the item the acknowledgment of the intent is written from
\* (that_didnt_work: last issue or flow; need_more_help and clarification:
\* last issue; status_check: recent ticket; escalation: none needed), and
\* null otherwise.
C24_PreambleIffIntentHasItsContext ==
    \A sid \in DOMAIN enhanced_sessions, m \in IntentMessages :
       LET fa == detect_follow_up_intent(m, enhanced_sessions[sid].context)
       IN  generate_contextual_response(fa) # <<>>
              <=> /\ fa.is_follow_up
                  /\ fa.has_context
                  /\ Acknowledges(fa.intent, enhanced_sessions[sid].context)

\* in a session that holds a last issue "that didn't work" is acknowledged;
\* in one that holds a recent ticket only it is a follow-up with context
\* and gets no acknowledgment
C24_Witness ==
    /\ \E sid \in DOMAIN enhanced_sessions :
          /\ enhanced_sessions[sid].context.last_issue.present
          /\ generate_contextual_response(
                detect_follow_up_intent(ThatDidntWork, enhanced_sessions[sid].context)) # <<>>
    /\ \E sid \in DOMAIN enhanced_sessions :
          /\ ~enhanced_sessions[sid].context.last_issue.present
          /\ enhanced_sessions[sid].context.recent_tickets # <<>>
          /\ detect_follow_up_intent(ThatDidntWork, enhanced_sessions[sid].context).has_context
          /\ generate_contextual_response(
                detect_follow_up_intent(ThatDidntWork, enhanced_sessions[sid].context)) = <<>>

(***************************************************************************)
(* The context summary                                                     *)
(***************************************************************************)
\* the session has no last issue, no active flow, no recent ticket and no search
NothingToReport(context) ==
    /\ ~context.last_issue.present
    /\ ~context.current_troubleshooting_flow.present
    /\ context.recent_tickets = <<>>
    /\ context.search_history = <<>>

\* C25: summarize returns the empty string for a session with nothing to
\* report (no last issue, no active flow, no recent ticket, no search
\* history, such as a fresh one) and a non-empty line otherwise.
C25_SummaryEmptyIffNothingToReport ==
    \A sid \in DOMAIN enhanced_sessions :
       create_context_summary(enhanced_sessions[sid].context) = <<>>
          <=> NothingToReport(enhanced_sessions[sid].context)

(***************************************************************************)
(* The recent ticket of a session                                          *)
(***************************************************************************)
AnyUpdate == <<W("any"), W("update"), QMark>>

\* the text names the ticket id under the token kind k
Names(text, k, id) == \E i \in DOMAIN text : text[i].k = k /\ text[i].id = id

\* C26: after a create_ticket dispatch that created ticket T in a session,
\* the head of the session's recent_tickets identifies T by its id and its
\* issue, and the context summary and the status-check acknowledgment name
\* T's id.
C26_RecentTicketIdentifiesCreatedTicket ==
    \A sid \in DOMAIN enhanced_sessions :
       LET context == enhanced_sessions[sid].context
       IN  (/\ context.recent_tickets # <<>>
            /\ context.recent_tickets[1].tool_result.k = "ticket_created")
           => LET latest_ticket == context.recent_tickets[1]
                  T == latest_ticket.tool_result.id
              IN  /\ \E i \in DOMAIN ticket_database :
                        /\ ticket_database[i].id = T
                        /\ ticket_database[i].issue = latest_ticket.issue
                  /\ "id" \in DOMAIN latest_ticket
                  /\ latest_ticket.id = T
                  /\ Names(create_context_summary(context), "summary_ticket", T)
                  /\ Names(generate_contextual_response(
                              detect_follow_up_intent(AnyUpdate, context)),
                           "ack_ticket_status", T)

(***************************************************************************)
(* The first-match scan of the follow-up classifier                        *)
(***************************************************************************)
WhatElse == <<W("what"), W("else"), W("can"), W("I"), W("try"), QMark>>
PersonalLaptop == <<W("my"), W("personal"), W("laptop"), W("is"), W("slow")>>
StillBroken == <<W("STILL"), W("BROKEN,"), W("any"), W("update"), QMark>>

\* messages with phrases of one category, of several, inside a word, in
\* upper case, and of none
ScannedMessages == IntentMessages \cup {PersonalLaptop, StillBroken}

\* the categories in the order of the scan
CategoryOrder ==
    <<"that_didnt_work", "need_more_help", "clarification", "status_check", "escalation">>

\* a phrase of the category is a substring of the lower-cased message
HasPhraseOf(category, user_message) ==
    \E phrase \in follow_up_patterns(category) :
       InStr(phrase, StrLower(Render(user_message)))

\* C27: classify_follow_up returns as intent the first category, in the
\* order that_didnt_work, need_more_help, clarification, status_check,
\* escalation, one of whose phrases is a substring of the lower-cased
\* message, null when no phrase of any category occurs, and is_follow_up is
\* true exactly when the intent is not null.
C27_FirstMatchingCategoryWins ==
    \A sid \in DOMAIN enhanced_sessions, m \in ScannedMessages :
       LET fa == detect_follow_up_intent(m, enhanced_sessions[sid].context)
       IN  /\ fa.is_follow_up <=> fa.intent # ""
           /\ fa.intent = ""
                 <=> \A i \in DOMAIN CategoryOrder : ~HasPhraseOf(CategoryOrder[i], m)
           /\ \A i \in DOMAIN CategoryOrder :
                 (/\ HasPhraseOf(CategoryOrder[i], m)
                  /\ \A j \in 1..(i - 1) : ~HasPhraseOf(CategoryOrder[j], m))
                 => fa.intent = CategoryOrder[i]
           /\ m = WhatElse => fa.intent = "need_more_help"
           /\ m = PersonalLaptop => fa.intent = "escalation"
           /\ m = StillBroken => fa.intent = "that_didnt_work"
           /\ m = <<W("thanks")>> => fa.intent = ""

\* a session exists in which a message with phrases of two categories, one
\* with a phrase inside a word and one with none have been classified
C27_Witness ==
    \E sid \in DOMAIN enhanced_sessions :
       /\ HasPhraseOf("need_more_help", WhatElse)
       /\ HasPhraseOf("clarification", WhatElse)
       /\ detect_follow_up_intent(WhatElse, enhanced_sessions[sid].context).intent
             = "need_more_help"
       /\ detect_follow_up_intent(PersonalLaptop, enhanced_sessions[sid].context).intent
             = "escalation"
       /\ ~detect_follow_up_intent(<<W("thanks")>>, enhanced_sessions[sid].context).is_follow_up
       /\ enhanced_sessions[sid].context.last_issue.present

(***************************************************************************)
(* The values of the conversation state                                    *)
(***************************************************************************)
\* ConversationState without FOLLOW_UP
AssignedStates == {"general", "ticket_creation", "troubleshooting", "kb_search"}

\* request r starts in this step on session sid with a message split in several
StartsSplit(r, sid) ==
    /\ chat[r].pc = "idle"
    /\ chat'[r].pc # "idle"
    /\ chat'[r].session_id = sid
    /\ chat'[r].subqueries > 1

\* C28: through chat requests a session's conversation state only takes the
\* values general, ticket_creation, troubleshooting and kb_search, never
\* follow_up, and a state other than general goes back to general only in
\* the step that splits a message into more than one sub-query.
C28_StateValuesAndReset ==
    /\ [](\A sid \in DOMAIN enhanced_sessions :
             enhanced_sessions[sid].context.state \in AssignedStates)
    /\ [][\A sid \in DOMAIN enhanced_sessions :
             (/\ enhanced_sessions[sid].context.state # "general"
              /\ sid \in DOMAIN enhanced_sessions'
              /\ enhanced_sessions'[sid].context.state = "general")
             => \E r \in Requests : StartsSplit(r, sid)]_vars

\* a session left in a state other than general by one request is back in
\* general after a later request whose message was split
C28_Witness ==
    \E r \in Requests :
        /\ chat[r].pc # "idle"
        /\ chat[r].subqueries > 1
        /\ chat[r].before.context.state \in AssignedStates \ {"general"}
        /\ enhanced_sessions[chat[r].session_id].context.state = "general"

(***************************************************************************)
(* Ticket statuses reachable through the tools                             *)
(***************************************************************************)
\* C29: through the tools of the dispatcher, none of which updates a
\* status, no ticket ever reaches Closed or Cancelled, and Resolved and
\* Pending User Response are absorbing: a ticket in one of them keeps its
\* status in every later tool dispatch.
C29_NoClosureThroughTools ==
    /\ [](\A i \in DOMAIN ticket_database :
             ticket_database[i].status \notin {"Closed", "Cancelled"})
    /\ [][\A i \in DOMAIN ticket_database :
             ticket_database[i].status \in {"Resolved", "Pending User Response"}
             => ticket_database'[i].status = ticket_database[i].status]_vars

\* a status query has left a ticket in Pending User Response, and tickets
\* have been created through the create_ticket tool since the store was set up
C29_Witness ==
    /\ \E i \in DOMAIN ticket_database :
          ticket_database[i].status = "Pending User Response"
    /\ Len(ticket_database) > Len(SampleTickets)
    /\ \A i \in DOMAIN ticket_database :
          ticket_database[i].status \in {"Open", "In Progress", "Pending User Response"}

(***************************************************************************)
(* Batching of a follow-up                                                 *)
(***************************************************************************)
\* the messages of a user who reports an issue and follows up on it: with
\* one question, with a status query, with two questions
FollowUpMessages ==
    { <<W("vpn"), W("not"), W("connecting")>>,
      <<W("what"), W("else"), W("can"), W("I"), W("try"), QMark>>,
      <<W("any"), W("update"), QMark>>,
      <<W("reset"), W("password"), QMark, W("connect"), W("vpn"), QMark>> }

\* chat requests of one session, answered by the LLM without tool calls
NextFollowUp ==
    \/ \E m \in FollowUpMessages :
          started < MaxRequests /\ StartChat(Worker, "s1", m, FALSE)
    \/ LLMRaises(Worker)
    \/ LLMAnswers(Worker, <<Tok("llm_answer", "", <<>>)>>)
    \/ \E sweep \in BOOLEAN : Respond(Worker, sweep)
    \/ Return(Worker)

SpecFollowUp == Init /\ [][NextFollowUp]_vars

\* the number of sub-requests of the user's own text
OwnSubRequests(message) ==
    IF should_batch_queries(message) THEN Len(extract_sub_queries(message)) ELSE 1

\* C30: a message is wrapped as a multi-question batch only when the user's
\* own text contains more than one sub-request: the acknowledgment prepended
\* to a follow-up is never counted as a question nor split off as a
\* sub-query, so a follow-up with a single question reaches the LLM as a
\* single request.
C30_BatchOnlyOwnSubRequests ==
    \A r \in Requests :
        chat[r].pc # "idle" /\ chat[r].subqueries > 1
        => OwnSubRequests(chat[r].message) > 1

====
